---- MODULE Spec2Model ----
(***************************************************************************)
(* Multi-strategy fund simulator: the Deals ledger, the three strategy     *)
(* policies, the deal recorder, the position reconstructions and the       *)
(* batch handlers that drive them.                                         *)
(*                                                                         *)
(* Encodings.                                                              *)
(*  - A date 'YYYY-MM-DD' is the day number counted from 2024-01-01 = 1    *)
(*    (a Monday).  SQL compares the strings lexicographically, which for   *)
(*    this format is the order of the day numbers.                         *)
(*  - Returns and volatilities are fixed-point integers in units of 1e-4   *)
(*    (0.02 is 200, 0.10 is 1000).                                         *)
(*  - A row of Deals keeps the columns the program reads back              *)
(*    (portefeuille_id, produit, type_operation, quantite, date); the      *)
(*    sequence order is the rowid order.  The two annotation columns       *)
(*    volatilite_periode / rendement_periode are never read by the code    *)
(*    modelled here and are left out.                                      *)
(***************************************************************************)
EXTENDS Integers, Sequences, FiniteSets, TLC

VARIABLES
    Deals,        \* table Deals, in rowid order
    Holdings,     \* table Portfolios_Holdings: portfolio -> ticker -> quantite (0 = no row)
    Allocations   \* table Allocations: client -> tickers in rowid order

vars == <<Deals, Holdings, Allocations>>

(***************************************************************************)
(* Bounds of the model.                                                    *)
(***************************************************************************)
MaxDeals == 3          \* longest ledger explored
Weeks == 6             \* Mondays, from 2024-01-01 on, an epoch call may name
Today == 22            \* datetime.today(): Monday 2024-01-22

(***************************************************************************)
(* Reference data (DatabaseManager.populate_initial_data), cut down to two *)
(* stocks, one ETF and one bond, and one allocated ticker per client.      *)
(***************************************************************************)
Tickers == {"AAPL", "MSFT", "SPY", "TLT"}

ProductType(t) ==
    CASE t \in {"AAPL", "MSFT"} -> "Stock"
      [] t = "SPY" -> "ETF"
      [] t = "TLT" -> "Bond"

Portfolios == {1, 2, 3}

\* portfolio i belongs to client i
ProfilRisque(p) ==
    CASE p = 1 -> "Low risk"
      [] p = 2 -> "Low turnover"
      [] p = 3 -> "High yield equity"

InitialAllocations ==
    [c \in Portfolios |-> IF c = 1 THEN <<"TLT">> ELSE <<"AAPL">>]

\* the selections the asset editor may save: stocks + bonds + etfs
AllocationChoices(c) ==
    IF c = 3 THEN {<<>>, <<"AAPL">>} ELSE {InitialAllocations[c]}

(***************************************************************************)
(* Calendar.                                                               *)
(***************************************************************************)
\* datetime.weekday(): 0 is Monday
Weekday(d) == (d - 1) % 7

DayOfMonth(d) == IF d <= 31 THEN d ELSE d - 31

MonthOf(d) == IF d <= 31 THEN 1 ELSE 2

\* while date.weekday() != 0: date = date - timedelta(days=1)
MondayOnOrBefore(d) == d - Weekday(d)

\* the loop "for i in range(4): date = today - timedelta(days=i*7)": newest first
FourMondays == [i \in 1..4 |-> MondayOnOrBefore(Today - (i - 1) * 7)]

RECURSIVE MondaysFrom(_, _)
\* the loop "while current_date <= end_date: if current_date.weekday() == 0"
MondaysFrom(cur, end) ==
    IF cur > end THEN <<>>
    ELSE IF Weekday(cur) = 0 THEN <<cur>> \o MondaysFrom(cur + 1, end)
    ELSE MondaysFrom(cur + 1, end)

\* the periods the two date inputs of the page may hold: <<start, end>>
Periods == {<<1, 9>>, <<10, 22>>, <<1, 22>>}

Min2(a, b) == IF a < b THEN a ELSE b
Max2(a, b) == IF a > b THEN a ELSE b

(***************************************************************************)
(* Market series.  A stored series is summarised by what the policies      *)
(* compute from its rows with Date <= date: the means of df['Returns']     *)
(* over head(5/10/20/30) and the annualised std over head(30).             *)
(*   none:   no table, or no row at all                                    *)
(*   pos:    positive trailing means, volatility 8%                        *)
(*   neg:    negative trailing means, volatility 20%                       *)
(*   late:   first row dated 2024-01-09, then as neg                       *)
(*   calm:   as pos, volatility 4%                                         *)
(*   wild:   as pos, volatility 16%                                        *)
(*   dip:    mildly negative means (30-day mean -1%), volatility 12%       *)
(*   mixed:  5-day mean positive, longer means negative (30-day mean -3%), *)
(*           volatility 14%                                                *)
(*   flat:   three rows whose two returns are the same positive number:    *)
(*           the standard deviation is 0                                   *)
(*   two:    two rows: one return (-3%), no standard deviation             *)
(*   single: one row: no return at all                                     *)
(* df['Returns'] has no value in its first row (shift(1)), mean() and      *)
(* std() skip missing values, and std() of fewer than two values is NaN;   *)
(* every comparison with NaN is false.                                     *)
(***************************************************************************)
SeriesKinds ==
    {"none", "pos", "neg", "late", "calm", "wild", "dip", "mixed", "flat", "two",
     "single"}

\* the number of rows "WHERE Date <= ? ORDER BY Date DESC LIMIT 252" returns
Observations(kind, d) ==
    CASE kind = "none" -> 0
      [] kind = "late" -> Cardinality({x \in 9..d : Weekday(x) < 5})
      [] kind = "single" -> 1
      [] kind = "two" -> 2
      [] kind = "flat" -> 3
      [] OTHER -> 252

\* df.empty after "WHERE Date <= ?" is false
HasRows(kind, d) == Observations(kind, d) > 0

\* df['Returns'].head(n).mean() is a number
HasMean(kind, d) == Observations(kind, d) >= 2

\* df['Returns'].head(30).std() is a number
HasStd(kind, d) == Observations(kind, d) >= 3

Stats(kind) ==
    CASE kind \in {"pos", "calm", "wild"} ->
            [r5 |-> 30, r10 |-> 20, r20 |-> 20, r30 |-> 10,
             vol |-> IF kind = "pos" THEN 800 ELSE IF kind = "calm" THEN 400 ELSE 1600]
      [] kind = "dip" ->
            [r5 |-> -50, r10 |-> -30, r20 |-> -20, r30 |-> -100, vol |-> 1200]
      [] kind = "mixed" ->
            [r5 |-> 40, r10 |-> -30, r20 |-> -100, r30 |-> -300, vol |-> 1400]
      [] kind = "flat" ->
            [r5 |-> 50, r10 |-> 50, r20 |-> 50, r30 |-> 50, vol |-> 0]
      [] kind = "two" ->
            [r5 |-> -300, r10 |-> -300, r20 |-> -300, r30 |-> -300, vol |-> 0]
      [] kind = "single" ->
            [r5 |-> 0, r10 |-> 0, r20 |-> 0, r30 |-> 0, vol |-> 0]
      [] OTHER ->
            [r5 |-> -900, r10 |-> -850, r20 |-> -800, r30 |-> -800, vol |-> 2000]

MarketStates == [Tickers -> SeriesKinds]

\* the stored series of the given kinds that a run reading only the given
\* tickers can tell apart: a series it never reads is taken as absent
MarketFor(tickers, kinds) ==
    {[t \in Tickers |-> IF t \in tickers THEN f[t] ELSE "none"] :
        f \in [tickers \cap Tickers -> kinds \cup {"none"}]}

\* what a download made while the handlers run may have stored
StoredKinds == {"none", "pos", "late"}

\* what a single epoch call may find stored for its date
EpochKinds == {"none", "pos", "neg"}

Range(seq) == {seq[i] : i \in 1..Len(seq)}

TargetVolatility == 1000      \* self.target_volatility = 0.10
MaxMonthlyTrades == 2         \* self.max_monthly_trades = 2
RandQty == {15, 25}           \* sampled values of random.randint(15, 25)

\* only the low-turnover policy calls random.randint
DrawsFor(strategy) == IF strategy = "Low turnover" THEN RandQty ELSE {15}

(***************************************************************************)
(* Reading the ledger.                                                     *)
(***************************************************************************)
Row(p, t, op, q, d) ==
    [portefeuille_id |-> p, produit |-> t, type_operation |-> op,
     quantite |-> q, date |-> d]

Decision(p, t, op, q) ==
    [portfolio_id |-> p, ticker |-> t, type_operation |-> op, quantite |-> q]

\* CASE WHEN type_operation = 'achat' THEN quantite WHEN 'vente' THEN -quantite
Signed(r) == IF r.type_operation = "achat" THEN r.quantite ELSE 0 - r.quantite

RECURSIVE SumSigned(_, _, _, _, _)
\* SUM(...) over the first n rows of deals with the portfolio, ticker and date <= d
SumSigned(deals, n, p, t, d) ==
    IF n = 0 THEN 0
    ELSE SumSigned(deals, n - 1, p, t, d)
         + (IF /\ deals[n].portefeuille_id = p
               /\ deals[n].produit = t
               /\ deals[n].date <= d
            THEN Signed(deals[n]) ELSE 0)

\* InvestmentStrategies.get_current_position: COALESCE(SUM(...), 0)
GetCurrentPosition(deals, p, t, d) == SumSigned(deals, Len(deals), p, t, d)

\* SELECT COUNT(*) FROM Deals WHERE portefeuille_id = ? AND date = ?
TradesOnDate(deals, p, d) ==
    Cardinality({i \in 1..Len(deals) :
                    deals[i].portefeuille_id = p /\ deals[i].date = d})

(***************************************************************************)
(* Eligible instruments and market data.                                   *)
(***************************************************************************)
\* fault: every allocated ticker kept, whatever the strategy
EligibleAny(strategy, t) == strategy \in {"Low risk", "Low turnover", "High yield equity"}

\* the strategy filter of get_products_by_strategy on one allocated ticker
Eligible(strategy, t) ==
    \/ strategy = "Low risk"
    \/ strategy = "Low turnover" /\ ProductType(t) \in {"Stock", "ETF"}
    \/ strategy = "High yield equity" /\ ProductType(t) = "Stock"

\* InvestmentStrategies.get_products_by_strategy: allocated tickers, in rowid order
GetProductsByStrategy(alloc, strategy, p) ==
    SelectSeq(alloc[p], LAMBDA t : t \in Tickers /\ Eligible(strategy, t))

\* InvestmentStrategies.get_market_data: the tickers that have rows, in order
GetMarketData(mkt, tickers, d) ==
    SelectSeq(tickers, LAMBDA t : HasRows(mkt[t], d))

(***************************************************************************)
(* The three policies.  A policy returns the decisions and whether it      *)
(* raised (int() of an infinite position size).                            *)
(***************************************************************************)
Decided(ds) == [raised |-> FALSE, decisions |-> ds]
Raised == [raised |-> TRUE, decisions |-> <<>>]

\* fault: the volatility taken in percent, as the size formula expects it
PositionSizeInPercent(vol) == Max2(5, Min2(20, 10000 \div vol))

\* position_size = int(10000 / (volatility * 100)); max(5, min(20, position_size)),
\* for a volatility vol > 0 in units of 1e-4
LowRiskPositionSize(vol) == Max2(5, Min2(20, 1000000 \div vol))

\* position_size = int(15000 / (volatility * 100)); max(5, min(25, position_size))
HighYieldPositionSize(vol) == Max2(5, Min2(25, 1500000 \div vol))

\* body of the loop of apply_low_risk_strategy for one ticker
LowRiskOne(deals, mkt, t, p, d) ==
    LET st == Stats(mkt[t])
        current_position == GetCurrentPosition(deals, p, t, d)
        asset_type == ProductType(t)
        mean == HasMean(mkt[t], d)
        std == HasStd(mkt[t], d)
    IN  IF current_position > 0
        THEN IF \/ mean /\ st.r30 < -200 /\ asset_type = "Stock"
                \/ mean /\ st.r30 < -100 /\ asset_type = "Bond"
                \/ std /\ st.vol * 10 > TargetVolatility * 15
             THEN Decided(<<Decision(p, t, "vente",
                        Min2(current_position, Max2(5, current_position \div 4)))>>)
             ELSE Decided(<<>>)
        ELSE IF /\ mean /\ st.r10 > 0 /\ st.r30 > 0
                /\ std /\ st.vol * 10 < TargetVolatility * 12
             THEN IF st.vol = 0
                  THEN Raised
                  ELSE Decided(<<Decision(p, t, "achat",
                            LowRiskPositionSize(st.vol))>>)
             ELSE Decided(<<>>)

\* body of the loop of apply_high_yield_strategy for one ticker
HighYieldOne(deals, mkt, t, p, d) ==
    LET st == Stats(mkt[t])
        current_position == GetCurrentPosition(deals, p, t, d)
        mean == HasMean(mkt[t], d)
        std == HasStd(mkt[t], d)
    IN  IF current_position > 0
        THEN IF \/ mean /\ st.r30 < -700
                \/ mean /\ st.r5 < 0 /\ st.r10 < 0 /\ st.r30 < 0
             THEN Decided(<<Decision(p, t, "vente",
                        Min2(current_position, Max2(5, (current_position * 3) \div 4)))>>)
             ELSE Decided(<<>>)
        ELSE IF /\ mean /\ st.r5 > 0 /\ st.r10 > 0 /\ st.r30 > 0
                /\ std /\ st.vol < 4000
             THEN IF st.vol = 0
                  THEN Raised
                  ELSE Decided(<<Decision(p, t, "achat",
                            HighYieldPositionSize(st.vol))>>)
             ELSE Decided(<<>>)

RECURSIVE ScanAll(_, _, _, _, _, _, _)
\* "for ticker, df in data.items()" of the low-risk and high-yield policies
ScanAll(strategy, deals, mkt, data, i, p, d) ==
    IF i > Len(data) THEN Decided(<<>>)
    ELSE LET one == IF strategy = "Low risk"
                    THEN LowRiskOne(deals, mkt, data[i], p, d)
                    ELSE HighYieldOne(deals, mkt, data[i], p, d)
         IN  IF one.raised THEN Raised
             ELSE LET rest == ScanAll(strategy, deals, mkt, data, i + 1, p, d)
                  IN  IF rest.raised THEN Raised
                      ELSE Decided(one.decisions \o rest.decisions)

ApplyLowRiskStrategy(deals, mkt, data, p, d) ==
    ScanAll("Low risk", deals, mkt, data, 1, p, d)

ApplyHighYieldStrategy(deals, mkt, data, p, d) ==
    ScanAll("High yield equity", deals, mkt, data, 1, p, d)

\* fault: the week number counted without the "- 1"
WeekNumberFromDay(d) == DayOfMonth(d) \div 7 + 1

\* week_number = (current_date.day - 1) // 7 + 1
WeekNumber(d) == (DayOfMonth(d) - 1) \div 7 + 1

\* is_trading_week = week_number in [1, 3]
IsTradingWeek(d) == WeekNumber(d) \in {1, 3}

RECURSIVE LowTurnoverScanUnclamped(_, _, _, _, _, _, _)
\* fault: the scan selling the drawn quantity whatever is held
LowTurnoverScanUnclamped(deals, mkt, data, i, p, d, rnd) ==
    IF i > Len(data) THEN <<>>
    ELSE LET t == data[i]
             st == Stats(mkt[t])
             current_position == GetCurrentPosition(deals, p, t, d)
         IN  IF current_position > 0
             THEN IF HasMean(mkt[t], d) /\ st.r5 * 100 < st.r20 * 90
                  THEN <<Decision(p, t, "vente", rnd)>>
                  ELSE LowTurnoverScanUnclamped(deals, mkt, data, i + 1, p, d, rnd)
             ELSE IF HasMean(mkt[t], d) /\ st.r5 * 100 > st.r20 * 110
                  THEN <<Decision(p, t, "achat", rnd)>>
                  ELSE LowTurnoverScanUnclamped(deals, mkt, data, i + 1, p, d, rnd)

RECURSIVE LowTurnoverScanNoBreak(_, _, _, _, _, _, _)
\* fault: the scan going on to the next ticker after a trade
LowTurnoverScanNoBreak(deals, mkt, data, i, p, d, rnd) ==
    IF i > Len(data) THEN <<>>
    ELSE LET t == data[i]
             st == Stats(mkt[t])
             current_position == GetCurrentPosition(deals, p, t, d)
             rest == LowTurnoverScanNoBreak(deals, mkt, data, i + 1, p, d, rnd)
         IN  IF current_position > 0
             THEN IF HasMean(mkt[t], d) /\ st.r5 * 100 < st.r20 * 90
                  THEN <<Decision(p, t, "vente", Min2(current_position, rnd))>> \o rest
                  ELSE rest
             ELSE IF HasMean(mkt[t], d) /\ st.r5 * 100 > st.r20 * 110
                  THEN <<Decision(p, t, "achat", rnd)>> \o rest
                  ELSE rest

RECURSIVE LowTurnoverScan(_, _, _, _, _, _, _)
\* the scan of apply_low_turnover_strategy, which breaks at the first trade
LowTurnoverScan(deals, mkt, data, i, p, d, rnd) ==
    IF i > Len(data) THEN <<>>
    ELSE LET t == data[i]
             st == Stats(mkt[t])
             current_position == GetCurrentPosition(deals, p, t, d)
         IN  IF current_position > 0
             THEN IF HasMean(mkt[t], d) /\ st.r5 * 100 < st.r20 * 90
                  THEN <<Decision(p, t, "vente", Min2(current_position, rnd))>>
                  ELSE LowTurnoverScan(deals, mkt, data, i + 1, p, d, rnd)
             ELSE IF HasMean(mkt[t], d) /\ st.r5 * 100 > st.r20 * 110
                  THEN <<Decision(p, t, "achat", rnd)>>
                  ELSE LowTurnoverScan(deals, mkt, data, i + 1, p, d, rnd)

\* fault: the policy not asking whether the portfolio already traded that day
ApplyLowTurnoverStrategyAgain(deals, mkt, data, p, d, rnd) ==
    IF ~IsTradingWeek(d) THEN Decided(<<>>)
    ELSE Decided(LowTurnoverScan(deals, mkt, data, 1, p, d, rnd))

\* InvestmentStrategies.apply_low_turnover_strategy
ApplyLowTurnoverStrategy(deals, mkt, data, p, d, rnd) ==
    IF ~IsTradingWeek(d) THEN Decided(<<>>)
    ELSE IF TradesOnDate(deals, p, d) > 0 THEN Decided(<<>>)
    ELSE Decided(LowTurnoverScan(deals, mkt, data, 1, p, d, rnd))

\* InvestmentStrategies.apply_strategy; rnd is the value random.randint would draw
ApplyStrategy(deals, alloc, mkt, strategy, p, d, rnd) ==
    LET tickers == GetProductsByStrategy(alloc, strategy, p)
        data == GetMarketData(mkt, tickers, d)
    IN  IF tickers = <<>> THEN Decided(<<>>)
        ELSE IF data = <<>> THEN Decided(<<>>)
        ELSE IF strategy = "Low risk" THEN ApplyLowRiskStrategy(deals, mkt, data, p, d)
        ELSE IF strategy = "Low turnover"
             THEN ApplyLowTurnoverStrategy(deals, mkt, data, p, d, rnd)
        ELSE IF strategy = "High yield equity"
             THEN ApplyHighYieldStrategy(deals, mkt, data, p, d)
        ELSE Decided(<<>>)

(***************************************************************************)
(* The deal recorder.                                                      *)
(***************************************************************************)
\* SELECT COUNT(*) FROM Deals WHERE portefeuille_id, produit_id, date, type_operation
Existing(deals, p, t, d, op) ==
    Cardinality({i \in 1..Len(deals) :
                    /\ deals[i].portefeuille_id = p
                    /\ deals[i].produit = t
                    /\ deals[i].date = d
                    /\ deals[i].type_operation = op})

\* fault: a recorder that inserts without looking for an existing row
StoreOneUnchecked(deals, dec, d) ==
    IF dec.ticker \notin Tickers \/ dec.type_operation \notin {"achat", "vente"}
    THEN deals
    ELSE Append(deals, Row(dec.portfolio_id, dec.ticker, dec.type_operation,
                           dec.quantite, d))

\* one iteration of the loop of store_deals
StoreOne(deals, dec, d) ==
    IF dec.ticker \notin Tickers THEN deals
    ELSE IF Existing(deals, dec.portfolio_id, dec.ticker, d, dec.type_operation) # 0
         THEN deals
    ELSE IF dec.type_operation \notin {"achat", "vente"} THEN deals
    ELSE Append(deals, Row(dec.portfolio_id, dec.ticker, dec.type_operation,
                           dec.quantite, d))

RECURSIVE StoreFrom(_, _, _, _)
StoreFrom(deals, decs, i, d) ==
    IF i > Len(decs) THEN deals
    ELSE StoreFrom(StoreOne(deals, decs[i], d), decs, i + 1, d)

RECURSIVE StoreAgainstSnapshot(_, _, _, _, _)
\* fault: a recorder that looks for existing rows in the ledger as it was
\* when the call began
StoreAgainstSnapshot(snapshot, deals, decs, i, d) ==
    IF i > Len(decs) THEN deals
    ELSE StoreAgainstSnapshot(snapshot,
             IF Existing(snapshot, decs[i].portfolio_id, decs[i].ticker, d,
                         decs[i].type_operation) # 0
             THEN deals
             ELSE deals \o StoreOne(<<>>, decs[i], d),
             decs, i + 1, d)

StoreDealsSnapshot(deals, decs, d) == StoreAgainstSnapshot(deals, deals, decs, 1, d)

\* InvestmentStrategies.store_deals
StoreDeals(deals, decs, d) == StoreFrom(deals, decs, 1, d)

(***************************************************************************)
(* Decide and record, and the batches built from it.                       *)
(***************************************************************************)
\* apply_strategy followed by "if decisions: store_deals(decisions, date)"
DecideRecord(deals, alloc, mkt, p, d, rnd) ==
    LET res == ApplyStrategy(deals, alloc, mkt, ProfilRisque(p), p, d, rnd)
    IN  [raised |-> res.raised,
         deals |-> IF res.raised THEN deals ELSE StoreDeals(deals, res.decisions, d)]

RECURSIVE RunEpochs(_, _, _, _, _, _)
\* a loop over <<date, portfolio>> pairs; an exception ends the loop and
\* leaves what earlier iterations committed.  done counts the pairs started.
RunEpochs(deals, alloc, mkt, work, k, rnd) ==
    IF k > Len(work) THEN [raised |-> FALSE, deals |-> deals, done |-> Len(work)]
    ELSE LET step == DecideRecord(deals, alloc, mkt, work[k][2], work[k][1],
                                  rnd)
         IN  IF step.raised THEN [raised |-> TRUE, deals |-> deals, done |-> k]
             ELSE RunEpochs(step.deals, alloc, mkt, work, k + 1, rnd)

\* the three portfolios of one epoch, in the order of the SELECT
PortfolioOrder == <<1, 2, 3>>

\* dates x portfolios, dates outermost
Work(dates, ports) ==
    [k \in 1..(Len(dates) * Len(ports)) |->
        <<dates[((k - 1) \div Len(ports)) + 1], ports[((k - 1) % Len(ports)) + 1]>>]

\* BaseUpdater.store_deals: the four Mondays, newest first
BaseUpdaterStoreDeals(deals, alloc, mkt, rnd) ==
    RunEpochs(deals, alloc, mkt, Work(FourMondays, PortfolioOrder), 1, rnd)

RECURSIVE AllDecisions(_, _, _, _, _, _)
\* the loop of execute_strategies that gathers all_decisions
AllDecisions(deals, alloc, mkt, k, d, rnd) ==
    IF k > Len(PortfolioOrder) THEN Decided(<<>>)
    ELSE LET one == ApplyStrategy(deals, alloc, mkt, ProfilRisque(PortfolioOrder[k]),
                                  PortfolioOrder[k], d, rnd)
         IN  IF one.raised THEN Raised
             ELSE LET rest == AllDecisions(deals, alloc, mkt, k + 1, d, rnd)
                  IN  IF rest.raised THEN Raised
                      ELSE Decided(one.decisions \o rest.decisions)

\* InvestmentStrategies.execute_strategies(date)
ExecuteStrategies(deals, alloc, mkt, d, rnd) ==
    LET all == AllDecisions(deals, alloc, mkt, 1, d, rnd)
    IN  [raised |-> all.raised,
         deals |-> IF all.raised THEN deals ELSE StoreDeals(deals, all.decisions, d)]

RECURSIVE ExecuteEach(_, _, _, _, _, _)
\* the __main__ loop of strategies.py: execute_strategies for each of the dates
ExecuteEach(deals, alloc, mkt, dates, k, rnd) ==
    IF k > Len(dates) THEN [raised |-> FALSE, deals |-> deals, done |-> Len(dates)]
    ELSE LET step == ExecuteStrategies(deals, alloc, mkt, dates[k], rnd)
         IN  IF step.raised THEN [raised |-> TRUE, deals |-> deals, done |-> k]
             ELSE ExecuteEach(step.deals, alloc, mkt, dates, k + 1, rnd)

(***************************************************************************)
(* The holdings snapshot.                                                  *)
(***************************************************************************)
RECURSIVE NetQuantity(_, _, _, _)
\* the accumulation loop of update_portfolios over the first n rows
NetQuantity(deals, n, p, t) ==
    IF n = 0 THEN 0
    ELSE NetQuantity(deals, n - 1, p, t)
         + (IF deals[n].portefeuille_id = p /\ deals[n].produit = t
            THEN (IF deals[n].type_operation = "achat"
                  THEN deals[n].quantite ELSE 0 - deals[n].quantite)
            ELSE 0)

\* BaseUpdater.update_portfolios
UpdatePortfolios(deals, holdings) ==
    IF deals = <<>> THEN holdings
    ELSE [p \in Portfolios |->
            IF \E i \in 1..Len(deals) : deals[i].portefeuille_id = p
            THEN [t \in Tickers |->
                    IF NetQuantity(deals, Len(deals), p, t) > 0
                    THEN NetQuantity(deals, Len(deals), p, t) ELSE 0]
            ELSE holdings[p]]

\* fault: the DELETE without its portfolio
DeleteRangeOfAll(deals, p, start, end) ==
    SelectSeq(deals, LAMBDA r : ~(start <= r.date /\ r.date <= end))

\* fault: the DELETE without the end of the period
DeleteFromStart(deals, p, start, end) ==
    SelectSeq(deals, LAMBDA r : ~(r.portefeuille_id = p /\ start <= r.date))

\* DELETE FROM Deals WHERE portefeuille_id = ? AND date BETWEEN ? AND ?
DeleteRange(deals, p, start, end) ==
    SelectSeq(deals, LAMBDA r :
        ~(r.portefeuille_id = p /\ start <= r.date /\ r.date <= end))

\* the part of generate_transactions_for_client after fetch_data
GenerateTransactions(deals, alloc, mkt, p, start, end, rnd) ==
    RunEpochs(DeleteRange(deals, p, start, end), alloc, mkt,
              Work(MondaysFrom(start, end), <<p>>), 1, rnd)

NoHoldings == [p \in Portfolios |-> [t \in Tickers |-> 0]]

\* the tickers some client has in Allocations
AllocatedTickers(alloc) == UNION {Range(alloc[c]) : c \in Portfolios}

(***************************************************************************)
(* The positions query of PortfolioAnalyzer.  Its result is written as a   *)
(* map ticker -> position, 0 standing for "no row for this ticker".        *)
(***************************************************************************)
\* FROM Deals d ... WHERE d.portefeuille_id = ? AND d.date <= ?, in scan order
PositionRows(deals, p, d) ==
    SelectSeq(deals, LAMBDA r : r.portefeuille_id = p /\ r.date <= d)

RECURSIVE InsertByDate(_, _, _)
\* place row r behind every row of sorted[k..] dated no later than r
InsertByDate(sorted, k, r) ==
    IF k > Len(sorted) THEN Append(sorted, r)
    ELSE IF sorted[k].date <= r.date THEN InsertByDate(sorted, k + 1, r)
    ELSE SubSeq(sorted, 1, k - 1) \o <<r>> \o SubSeq(sorted, k, Len(sorted))

RECURSIVE SortByDate(_, _)
\* ORDER BY d.date over the first n rows: a stable sort of the scan order
SortByDate(rows, n) ==
    IF n = 0 THEN <<>>
    ELSE InsertByDate(SortByDate(rows, n - 1), 1, rows[n])

RECURSIVE RunningPositionFrom(_, _, _)
\* SUM(CASE ...) OVER (PARTITION BY d.produit_id ORDER BY d.date) at row k.
\* No frame is written, so the frame is RANGE BETWEEN UNBOUNDED PRECEDING
\* AND CURRENT ROW: the rows of the partition dated up to row k's date,
\* the rows that share its date included.
RunningPositionFrom(rows, n, k) ==
    IF n = 0 THEN 0
    ELSE RunningPositionFrom(rows, n - 1, k)
         + (IF rows[n].produit = rows[k].produit /\ rows[n].date <= rows[k].date
            THEN Signed(rows[n]) ELSE 0)

\* fault: the frame written as ROWS BETWEEN UNBOUNDED PRECEDING AND CURRENT ROW
RunningPositionRows(rows, k) ==
    RunningPositionFrom(SubSeq(rows, 1, k), k, k)

RunningPosition(rows, k) == RunningPositionFrom(rows, Len(rows), k)

\* GROUP BY ticker with the bare column running_position: SQLite 3.40 takes
\* the bare column from the first row of the group it reads
FirstOfGroup(rows, t) ==
    CHOOSE k \in 1..Len(rows) :
        /\ rows[k].produit = t
        /\ \A j \in 1..(k - 1) : rows[j].produit # t

\* PortfolioAnalyzer.get_portfolio_positions
GetPortfolioPositions(deals, p, d) ==
    LET rows == SortByDate(PositionRows(deals, p, d), Len(PositionRows(deals, p, d)))
    IN  [t \in Tickers |->
            IF \A k \in 1..Len(rows) : rows[k].produit # t THEN 0
            ELSE LET running_position == RunningPosition(rows, FirstOfGroup(rows, t))
                 IN  IF running_position > 0 THEN running_position ELSE 0]

(***************************************************************************)
(* Valuation (PortfolioAnalyzer).  Prices are whole currency units; a      *)
(* stored price history is summarised per ticker by its kind:              *)
(*   absent: no table under the name "<ticker>_data" the query reads       *)
(*   late:   a table whose first row is dated 2024-01-09, close 100        *)
(*   steady: close 100 on every date                                       *)
(*   jump:   close 100 up to 2024-01-07, 150 from 2024-01-08 on            *)
(*   crash:  close 100 up to 2024-01-14, 40 from 2024-01-15 on             *)
(*   rally:  close 100, then a fifth more from each Monday on              *)
(*           (120 from 2024-01-08, 144 from 2024-01-15, 173, 207)          *)
(*   slide:  close 100, then a fifth less from each Monday on              *)
(*           (80 from 2024-01-08, 64 from 2024-01-15, 51, 41)              *)
(*   climb:  close 101 on 2024-01-01 and one more on every later date      *)
(*   descent: close 99 on 2024-01-01 and one less on every later date      *)
(* A function that raised returns nothing: its record has raised = TRUE.   *)
(***************************************************************************)
PriceKinds == {"absent", "late", "steady", "jump", "crash"}

\* histories with a steady weekly trend
TrendKinds == {"rally", "slide"}

\* histories that move the same way on every date
DailyTrendKinds == {"climb", "descent"}

\* the week of the date, 2024-01-01..07 being week 0, up to week 4
TrendWeek(d) == Min2(4, (d - 1) \div 7)

\* "FROM <ticker>_data" names a table
HasTable(kind) == kind # "absent"

\* "WHERE Date <= ? ORDER BY Date DESC LIMIT 1" returns a row
HasPrice(kind, d) ==
    \/ kind \in {"steady", "jump", "crash"} \cup TrendKinds \cup DailyTrendKinds
    \/ (kind = "late" /\ d >= 9)

\* Close of that row
ClosePrice(kind, d) ==
    CASE kind = "jump" -> IF d >= 8 THEN 150 ELSE 100
      [] kind = "crash" -> IF d >= 15 THEN 40 ELSE 100
      [] kind = "rally" -> <<100, 120, 144, 173, 207>>[TrendWeek(d) + 1]
      [] kind = "slide" -> <<100, 80, 64, 51, 41>>[TrendWeek(d) + 1]
      [] kind = "climb" -> 100 + d
      [] kind = "descent" -> 100 - d
      [] OTHER -> 100

\* Returns of that row (pct_change of Close, in 1e-4), NULL read as 0
DailyReturn(kind, d) ==
    CASE kind = "jump" /\ d = 8 -> 5000
      [] kind = "crash" /\ d = 15 -> -6000
      [] kind = "rally" /\ d \in {8, 15, 22, 29} -> 2000
      [] kind = "slide" /\ d \in {8, 15, 22, 29} -> -2000
      [] kind = "climb" /\ d >= 2 -> 10000 \div (99 + d)
      [] kind = "descent" /\ d >= 2 -> 0 - (10000 \div (101 - d))
      [] OTHER -> 0

\* PortfolioAnalyzer.get_asset_price_and_return; found = FALSE is (None, None)
GetAssetPriceAndReturn(px, t, d) ==
    [raised |-> ~HasTable(px[t]),
     found |-> HasTable(px[t]) /\ HasPrice(px[t], d),
     price |-> ClosePrice(px[t], d),
     daily_return |-> DailyReturn(px[t], d)]

RECURSIVE SumOver(_, _)
\* the accumulation "total += ..." over the rows of positions
SumOver(f, S) ==
    IF S = {} THEN 0
    ELSE LET x == CHOOSE x \in S : TRUE
         IN  f[x] + SumOver(f, S \ {x})

\* the tickers the positions query lists
Listed(positions) == {t \in Tickers : positions[t] > 0}

\* position_value = price * position['position'] for the rows whose price
\* is not None; 0 for the others
PositionValues(positions, px, d) ==
    [t \in Tickers |->
        IF positions[t] > 0 /\ GetAssetPriceAndReturn(px, t, d).found
        THEN GetAssetPriceAndReturn(px, t, d).price * positions[t] ELSE 0]

\* PortfolioAnalyzer.get_portfolio_value_and_return
GetPortfolioValueAndReturn(deals, px, p, d) ==
    LET positions == GetPortfolioPositions(deals, p, d)
        values == PositionValues(positions, px, d)
        total_value == SumOver(values, Tickers)
        weighted_return ==
            SumOver([t \in Tickers |-> values[t] * DailyReturn(px[t], d)], Tickers)
    IN  IF Listed(positions) = {} THEN [raised |-> FALSE, value |-> 0, return |-> 0]
        ELSE IF \E t \in Listed(positions) : GetAssetPriceAndReturn(px, t, d).raised
             THEN [raised |-> TRUE, value |-> 0, return |-> 0]
        ELSE [raised |-> FALSE, value |-> total_value,
              return |-> IF total_value > 0 THEN weighted_return \div total_value
                         ELSE 0]

\* PortfolioAnalyzer.get_portfolio_composition: the rows by ticker (an
\* instrument without a row is not in the domain); poids is in 0.01%
GetPortfolioComposition(deals, px, p, d) ==
    LET positions == GetPortfolioPositions(deals, p, d)
        values == PositionValues(positions, px, d)
        total_value == SumOver(values, Tickers)
        priced == {t \in Listed(positions) : GetAssetPriceAndReturn(px, t, d).found}
    IN  IF Listed(positions) = {} THEN [raised |-> FALSE, rows |-> <<>>]
        ELSE IF \E t \in Listed(positions) : GetAssetPriceAndReturn(px, t, d).raised
             THEN [raised |-> TRUE, rows |-> <<>>]
        ELSE [raised |-> FALSE,
              rows |-> [t \in priced |->
                          [quantite |-> positions[t],
                           prix |-> GetAssetPriceAndReturn(px, t, d).price,
                           valeur_marche |-> values[t],
                           poids |-> IF total_value > 0
                                     THEN (values[t] * 10000) \div total_value
                                     ELSE 0]]]

\* PortfolioAnalyzer.get_mondays_between_dates
GetMondaysBetweenDates(start, end) == MondaysFrom(start, end)

\* weekly_return = (value / previous_value) - 1, in 1e-4
WeeklyReturn(value, previous_value) ==
    ((value - previous_value) * 10000) \div previous_value

\* fault: the return passed on as computed
NoClip(r) == r

\* np.clip(weekly_return, -0.10, 0.10)
Clip(r) == IF r < -1000 THEN -1000 ELSE IF r > 1000 THEN 1000 ELSE r

RECURSIVE WeeklyFromFirst(_, _, _, _, _, _)
\* fault: previous_value kept at the first positive value of the range
WeeklyFromFirst(deals, px, p, mondays, k, previous_value) ==
    IF k > Len(mondays) THEN [raised |-> FALSE, rows |-> <<>>]
    ELSE LET v == GetPortfolioValueAndReturn(deals, px, p, mondays[k])
         IN  IF v.raised THEN [raised |-> TRUE, rows |-> <<>>]
             ELSE LET rest == WeeklyFromFirst(deals, px, p, mondays, k + 1,
                                         IF previous_value = 0 /\ v.value > 0
                                         THEN v.value ELSE previous_value)
                      row == IF previous_value > 0
                             THEN <<[date |-> mondays[k],
                                     return |-> Clip(WeeklyReturn(v.value,
                                                                  previous_value)),
                                     value |-> v.value]>>
                             ELSE <<>>
                  IN  IF rest.raised THEN [raised |-> TRUE, rows |-> <<>>]
                      ELSE [raised |-> FALSE, rows |-> row \o rest.rows]

RECURSIVE WeeklyFrom(_, _, _, _, _, _)
\* the loop of get_weekly_returns from the k-th Monday on; previous_value
\* is 0 while the code's previous_value is None
WeeklyFrom(deals, px, p, mondays, k, previous_value) ==
    IF k > Len(mondays) THEN [raised |-> FALSE, rows |-> <<>>]
    ELSE LET v == GetPortfolioValueAndReturn(deals, px, p, mondays[k])
         IN  IF v.raised THEN [raised |-> TRUE, rows |-> <<>>]
             ELSE LET rest == WeeklyFrom(deals, px, p, mondays, k + 1,
                                         IF v.value > 0 THEN v.value
                                         ELSE previous_value)
                      row == IF previous_value > 0
                             THEN <<[date |-> mondays[k],
                                     return |-> Clip(WeeklyReturn(v.value,
                                                                  previous_value)),
                                     value |-> v.value]>>
                             ELSE <<>>
                  IN  IF rest.raised THEN [raised |-> TRUE, rows |-> <<>>]
                      ELSE [raised |-> FALSE, rows |-> row \o rest.rows]

\* PortfolioAnalyzer.get_weekly_returns
GetWeeklyReturns(deals, px, p, start, end) ==
    WeeklyFrom(deals, px, p, GetMondaysBetweenDates(start, end), 1, 0)

(***************************************************************************)
(* Performance metrics (PortfolioAnalyzer.calculate_performance_metrics).  *)
(* Growth factors (1 + return) are fixed-point numbers in units of 1e-4;   *)
(* the Sharpe ratio is in units of 1e-2.  The returns are 64-bit floats    *)
(* in the program: where the outcome of the code depends on a rounding     *)
(* error that the fixed-point numbers cannot show (a standard deviation    *)
(* that is tiny but not 0.0), the rounding is modelled by StdResidue.      *)
(***************************************************************************)
\* a * b / 10000 for a, b >= 0, written so that no product leaves 32 bits
MulFix(a, b) == (a \div 10000) * b + ((a % 10000) * b) \div 10000

RECURSIVE CumProd(_, _)
\* (1 + weekly_returns['return']).cumprod() at row k (.prod() at the last row)
CumProd(returns, k) ==
    IF k = 0 THEN 10000 ELSE MulFix(CumProd(returns, k - 1), 10000 + returns[k])

RECURSIVE Power(_, _)
\* base ** e for a whole exponent e
Power(base, e) == IF e = 0 THEN 10000 ELSE MulFix(Power(base, e - 1), base)

RECURSIVE IntPower(_, _)
IntPower(y, e) == IF e = 0 THEN 1 ELSE y * IntPower(y, e - 1)

\* base ** (1 / n): the n-th root, found in units of 1e-3
NthRoot(base, n) ==
    10 * (CHOOSE y \in 800..1200 :
            /\ IntPower(y, n) <= base * IntPower(10, 3 * n - 4)
            /\ IntPower(y + 1, n) > base * IntPower(10, 3 * n - 4))

\* (1 + rendement_total) ** (52 / nb_weeks)
Annualise(base, nb_weeks) ==
    IF 52 % nb_weeks = 0 THEN Power(base, 52 \div nb_weeks)
    ELSE MulFix(Power(base, 52 \div nb_weeks),
                NthRoot(Power(base, 52 % nb_weeks), nb_weeks))

RECURSIVE SumSeq(_, _)
SumSeq(xs, k) == IF k = 0 THEN 0 ELSE SumSeq(xs, k - 1) + xs[k]

RECURSIVE Isqrt(_, _, _)
\* the whole part of the square root of x, by bisection of lo..hi
Isqrt(x, lo, hi) ==
    IF lo >= hi THEN lo
    ELSE LET mid == (lo + hi + 1) \div 2
         IN  IF mid * mid <= x THEN Isqrt(x, mid, hi) ELSE Isqrt(x, lo, mid - 1)

\* weekly_returns['return'].std() * np.sqrt(52): sample standard deviation
\* (ddof = 1) of n >= 2 returns, annualised, in units of 1e-4
AnnualisedStd(returns) ==
    LET n == Len(returns)
        s == SumSeq(returns, n)
        ss == SumSeq([i \in 1..n |-> returns[i] * returns[i]], n)
    IN  Isqrt((52 * (n * ss - s * s)) \div (n * (n - 1)), 0, 40000)

\* Series.std() takes avg = sum / count and then the squared differences
\* avg - value.  For n copies of one float x the sum is rounded, so avg can
\* differ from x in the last bit and the result is about 1e-17, not 0.0:
\* for x = 0.1 and x = -0.1 (the two values np.clip produces) this happens
\* for 3 and for 6 copies ((0.1 + 0.1 + 0.1) / 3 = 0.10000000000000002) and
\* not for 2, 4 or 5; for x = 0.0 it never happens.  Other equal returns
\* are not told apart at the resolution of the model and are taken as
\* exact.
StdResidue(returns) ==
    /\ \A i \in 1..Len(returns) : returns[i] = returns[1]
    /\ returns[1] \in {1000, -1000}
    /\ Len(returns) \in {3, 6}

\* the quotient a / b in units of 1e-2, for b > 0
Quotient(a, b) ==
    IF a >= 0 THEN (a \div b) * 100 + ((a % b) * 100) \div b
    ELSE 0 - ((0 - a) \div b) * 100 - (((0 - a) % b) * 100) \div b

\* what stands for a quotient too large for the numbers of the model
Saturated == 1000000000

\* excess_return / volatilite_annualisee if volatilite_annualisee != 0 else 0;
\* residue says that the volatility is a rounding error above 0.0
SharpeRatio(excess_return, volatilite_annualisee, residue) ==
    IF volatilite_annualisee # 0 THEN Quotient(excess_return, volatilite_annualisee)
    ELSE IF ~residue THEN 0
    ELSE IF excess_return > 0 THEN Saturated
    ELSE IF excess_return < 0 THEN 0 - Saturated
    ELSE 0

RiskFreeRate == 200        \* self.risk_free_rate = 0.02

RECURSIVE RollingMax(_, _)
\* cumulative_returns.expanding().max() at row k
RollingMax(returns, k) ==
    IF k = 1 THEN CumProd(returns, 1)
    ELSE Max2(RollingMax(returns, k - 1), CumProd(returns, k))

RECURSIVE DrawdownMin(_, _)
\* (cumulative_returns / rolling_max - 1).min() over the first k rows
DrawdownMin(returns, k) ==
    LET here == (CumProd(returns, k) * 10000) \div RollingMax(returns, k) - 10000
    IN  IF k = 1 THEN here ELSE Min2(DrawdownMin(returns, k - 1), here)

\* the result returned when there are fewer than two samples
ZeroMetrics ==
    [raised |-> FALSE, rendement_total |-> 0, rendement_annualise |-> 0,
     volatilite_annualisee |-> 0, ratio_sharpe |-> 0, drawdown_max |-> 0,
     valeur_finale |-> 0, nb_semaines_positives |-> 0, weekly_returns |-> <<>>]

\* fault: the early return taken for an empty series only
MetricsUnlessEmpty(deals, px, p, start, end) ==
    LET weekly == GetWeeklyReturns(deals, px, p, start, end)
        nb_weeks == Len(weekly.rows)
        returns == [i \in 1..nb_weeks |-> weekly.rows[i].return]
    IN  IF weekly.raised THEN [ZeroMetrics EXCEPT !.raised = TRUE]
        ELSE IF nb_weeks = 0 THEN ZeroMetrics
        ELSE [ZeroMetrics EXCEPT
                !.rendement_total = CumProd(returns, nb_weeks) - 10000,
                !.valeur_finale = weekly.rows[nb_weeks].value,
                !.weekly_returns = weekly.rows]

\* PortfolioAnalyzer.calculate_performance_metrics
CalculatePerformanceMetrics(deals, px, p, start, end) ==
    LET weekly == GetWeeklyReturns(deals, px, p, start, end)
        nb_weeks == Len(weekly.rows)
        returns == [i \in 1..nb_weeks |-> weekly.rows[i].return]
        rendement_total == CumProd(returns, nb_weeks) - 10000
        rendement_annualise == Annualise(10000 + rendement_total, nb_weeks) - 10000
        volatilite_annualisee == AnnualisedStd(returns)
    IN  IF weekly.raised THEN [ZeroMetrics EXCEPT !.raised = TRUE]
        ELSE IF nb_weeks < 2 THEN ZeroMetrics
        ELSE [raised |-> FALSE,
              rendement_total |-> rendement_total,
              rendement_annualise |-> rendement_annualise,
              volatilite_annualisee |-> volatilite_annualisee,
              ratio_sharpe |-> SharpeRatio(rendement_annualise - RiskFreeRate,
                                           volatilite_annualisee,
                                           StdResidue(returns)),
              drawdown_max |-> DrawdownMin(returns, nb_weeks),
              valeur_finale |-> weekly.rows[nb_weeks].value,
              nb_semaines_positives |->
                  Cardinality({i \in 1..nb_weeks : returns[i] > 0}),
              weekly_returns |-> weekly.rows]

(***************************************************************************)
(* The frame get_market_data hands to the policies                         *)
(* (InvestmentStrategies.get_market_data, calculate_returns).  The rows    *)
(* come newest first (ORDER BY Date DESC) and df['Returns'] is computed on *)
(* the frame in that order.  Returns are in units of 1e-4; a missing value *)
(* (NaN) is a record with isnan = TRUE.                                    *)
(***************************************************************************)
\* the first date of the stored history
FirstDate(kind) == IF kind = "late" THEN 9 ELSE 1

\* "WHERE Date <= ? ORDER BY Date DESC LIMIT 252": the dates of the rows
MarketDates(kind, d) ==
    IF ~HasTable(kind) \/ d < FirstDate(kind) THEN <<>>
    ELSE [i \in 1..Min2(252, d - FirstDate(kind) + 1) |-> d - i + 1]

\* df['Close'], in the order of the frame
MarketCloses(kind, d) ==
    [i \in 1..Len(MarketDates(kind, d)) |-> ClosePrice(kind, MarketDates(kind, d)[i])]

\* log(a / b) for a >= b > 0 as 2 * atanh((a - b) / (a + b)), three terms
LogUp(a, b) ==
    LET z == ((a - b) * 10000) \div (a + b)
        z3 == MulFix(MulFix(z, z), z)
        z5 == MulFix(MulFix(z, z), z3)
    IN  2 * (z + z3 \div 3 + z5 \div 5)

\* np.log(a / b) for a, b > 0
Log(a, b) == IF a >= b THEN LogUp(a, b) ELSE 0 - LogUp(b, a)

NaN == [isnan |-> TRUE, v |-> 0]
Number(x) == [isnan |-> FALSE, v |-> x]

\* calculate_returns: np.log(prices / prices.shift(1)); shift(1) moves the
\* column one row down the frame, so the first row has no value
CalculateReturns(prices) ==
    [i \in 1..Len(prices) |->
        IF i = 1 THEN NaN ELSE Number(Log(prices[i], prices[i - 1]))]

\* df['Returns'].head(n).mean(): the mean of the values that are not NaN
HeadMean(returns, n) ==
    LET head == 1..Min2(n, Len(returns))
        values == {i \in head : ~returns[i].isnan}
    IN  IF values = {} THEN NaN
        ELSE LET total == SumOver([i \in values |-> returns[i].v], values)
             IN  Number(IF total >= 0 THEN total \div Cardinality(values)
                        ELSE 0 - ((0 - total) \div Cardinality(values)))

(***************************************************************************)
(* State machine.  The <ticker>_data tables belong to the market-data      *)
(* provider: every page render and every regeneration downloads them       *)
(* again, so each handler reads the series (mkt) that happen to be stored  *)
(* when it runs.  rnd is the value random.randint draws in that run.       *)
(***************************************************************************)
Init ==
    /\ Deals = <<>>
    /\ Holdings = NoHoldings
    /\ Allocations = InitialAllocations

\* BaseUpdater.store_deals(); BaseUpdater.update_portfolios()
\* (main.execute_strategies, the regenerate button, base_update.__main__)
RegenerateTransactions ==
    \E mkt \in MarketFor(AllocatedTickers(Allocations), StoredKinds), rnd \in RandQty :
        \E res \in {BaseUpdaterStoreDeals(Deals, Allocations, mkt, rnd)} :
            /\ Len(res.deals) <= MaxDeals
            /\ Deals' = res.deals
            /\ Holdings' = IF res.raised THEN Holdings
                           ELSE UpdatePortfolios(res.deals, Holdings)
            /\ UNCHANGED Allocations

\* strategies.py run as a script: execute_strategies for the four Mondays
StrategiesMain ==
    \E mkt \in MarketFor(AllocatedTickers(Allocations), StoredKinds), rnd \in RandQty :
        \E res \in {ExecuteEach(Deals, Allocations, mkt, FourMondays, 1, rnd)} :
            /\ Len(res.deals) <= MaxDeals
            /\ Deals' = res.deals
            /\ UNCHANGED <<Holdings, Allocations>>

\* the save button: replace the client's allocations, then
\* generate_transactions_for_client(client, start_date, end_date)
SaveModifications(c, selected, start, end) ==
    \E mkt \in MarketFor(Range(selected), StoredKinds),
       rnd \in DrawsFor(ProfilRisque(c)) :
        \E alloc \in {[Allocations EXCEPT ![c] = selected]} :
            \E res \in {GenerateTransactions(Deals, alloc, mkt, c, start, end, rnd)} :
                /\ Len(res.deals) <= MaxDeals
                /\ Allocations' = alloc
                /\ Deals' = res.deals
                /\ Holdings' = IF res.raised THEN Holdings
                               ELSE UpdatePortfolios(res.deals, Holdings)

\* reset_and_populate_database: clear_all_tables, then populate_initial_data
ResetDatabase ==
    /\ Deals' = <<>>
    /\ Holdings' = NoHoldings
    /\ Allocations' = InitialAllocations

Next ==
    \/ RegenerateTransactions
    \/ StrategiesMain
    \/ \E c \in Portfolios, period \in Periods :
          \E selected \in AllocationChoices(c) :
            SaveModifications(c, selected, period[1], period[2])
    \/ ResetDatabase

Spec == Init /\ [][Next]_vars

(***************************************************************************)
(* The operations called one at a time, as a script or a test would call   *)
(* them on the same database.                                              *)
(***************************************************************************)
\* the Mondays 2024-01-01, 2024-01-08, ...
EpochDates == {1 + 7 * k : k \in 0..(Weeks - 1)}

\* decision lists handed to store_deals directly: single decisions, a list
\* naming the same (portfolio, instrument, operation) twice, a mixed list
DecisionLists ==
    {<<Decision(3, "AAPL", "achat", 20)>>,
     <<Decision(3, "AAPL", "vente", 5)>>,
     <<Decision(3, "AAPL", "achat", 20), Decision(3, "AAPL", "achat", 5)>>,
     <<Decision(3, "AAPL", "vente", 5), Decision(3, "AAPL", "achat", 20)>>}

\* the dates the direct calls name
CallDates == {8, 15}

\* InvestmentStrategies.store_deals(decisions, date)
StoreDealsCall(decs, d) ==
    \E res \in {StoreDeals(Deals, decs, d)} :
        /\ Len(res) <= MaxDeals
        /\ Deals' = res
        /\ UNCHANGED <<Holdings, Allocations>>

\* InvestmentStrategies.execute_strategies(date)
ExecuteStrategiesCall(d) ==
    \E mkt \in MarketFor(AllocatedTickers(Allocations), EpochKinds), rnd \in RandQty :
        \E res \in {ExecuteStrategies(Deals, Allocations, mkt, d, rnd)} :
            /\ Len(res.deals) <= MaxDeals
            /\ Deals' = res.deals
            /\ UNCHANGED <<Holdings, Allocations>>

\* apply_strategy(strategy, portfolio, date) followed by store_deals
DecideAndRecord(p, d) ==
    \E mkt \in MarketFor(Range(Allocations[p]), EpochKinds),
       rnd \in DrawsFor(ProfilRisque(p)) :
        \E res \in {DecideRecord(Deals, Allocations, mkt, p, d, rnd)} :
            /\ Len(res.deals) <= MaxDeals
            /\ Deals' = res.deals
            /\ UNCHANGED <<Holdings, Allocations>>

\* BaseUpdater.store_deals()
BaseUpdaterStoreDealsCall ==
    \E mkt \in MarketFor(AllocatedTickers(Allocations), StoredKinds), rnd \in RandQty :
        \E res \in {BaseUpdaterStoreDeals(Deals, Allocations, mkt, rnd)} :
            /\ Len(res.deals) <= MaxDeals
            /\ Deals' = res.deals
            /\ UNCHANGED <<Holdings, Allocations>>

\* generate_transactions_for_client(client, start, end)
GenerateTransactionsCall(c, start, end) ==
    \E mkt \in MarketFor(Range(Allocations[c]), StoredKinds),
       rnd \in DrawsFor(ProfilRisque(c)) :
        \E res \in {GenerateTransactions(Deals, Allocations, mkt, c, start, end, rnd)} :
            /\ Len(res.deals) <= MaxDeals
            /\ Deals' = res.deals
            /\ Holdings' = IF res.raised THEN Holdings
                           ELSE UpdatePortfolios(res.deals, Holdings)
            /\ UNCHANGED Allocations

NextAPI ==
    \/ \E decs \in DecisionLists, d \in CallDates : StoreDealsCall(decs, d)
    \/ \E d \in CallDates : ExecuteStrategiesCall(d)
    \/ BaseUpdaterStoreDealsCall
    \/ \E c \in Portfolios, period \in Periods :
          GenerateTransactionsCall(c, period[1], period[2])

\* the calls are made on a database in which only the high-yield client has
\* an allocation left
InitAPI ==
    /\ Deals = <<>>
    /\ Holdings = NoHoldings
    /\ Allocations = [c \in Portfolios |-> IF c = 3 THEN <<"AAPL">> ELSE <<>>]

SpecAPI == InitAPI /\ [][NextAPI]_vars

\* allocations an epoch call may find: the initial ones, or a second
\* instrument saved for the low-turnover client
EpochAllocations ==
    {InitialAllocations, [InitialAllocations EXCEPT ![2] = <<"AAPL", "SPY">>]}

InitEpoch ==
    /\ Deals = <<>>
    /\ Holdings = NoHoldings
    /\ Allocations \in EpochAllocations

NextEpoch == \E p \in Portfolios, d \in EpochDates : DecideAndRecord(p, d)

SpecEpoch == InitEpoch /\ [][NextEpoch]_vars

(***************************************************************************)
(* The policies called on every kind of stored series.                     *)
(***************************************************************************)
\* what apply_strategy may find stored for an allocated ticker
PolicyKinds == SeriesKinds \ {"none", "late"}

\* the dates the policy calls name: Mondays of week-of-month 1, 2 and 3
PolicyDates == {1, 8, 15}

\* allocations saved through the asset editor: each class of instrument for
\* the low-risk client, two eligible instruments for the low-turnover
\* client, one or two for the high-yield client
PolicyAllocations ==
    {[c \in Portfolios |->
        CASE c = 1 -> <<"TLT", "AAPL">> [] c = 2 -> <<"AAPL", "SPY">>
          [] c = 3 -> <<"AAPL", "TLT">>],
     [c \in Portfolios |->
        CASE c = 1 -> <<"SPY">> [] c = 2 -> <<"SPY", "AAPL">>
          [] c = 3 -> <<"AAPL", "MSFT">>]}

\* purchases recorded through store_deals directly
SeedLists ==
    {<<Decision(3, "AAPL", "achat", 20)>>, <<Decision(1, "TLT", "achat", 3)>>}

\* the series stored when a call is made: each outcome of a policy (buy,
\* sell, nothing, exception) is the outcome for one of them
CallKinds == {"pos", "neg", "flat"}

\* apply_strategy(strategy, portfolio, date) followed by store_deals
PolicyCall(p, d) ==
    \E mkt \in MarketFor(Range(Allocations[p]), CallKinds),
       rnd \in DrawsFor(ProfilRisque(p)) :
        \E res \in {DecideRecord(Deals, Allocations, mkt, p, d, rnd)} :
            /\ Len(res.deals) <= MaxDeals
            /\ Deals' = res.deals
            /\ UNCHANGED <<Holdings, Allocations>>

InitPolicy ==
    /\ Deals = <<>>
    /\ Holdings = NoHoldings
    /\ Allocations \in PolicyAllocations

NextPolicy ==
    \/ \E p \in Portfolios, d \in PolicyDates : PolicyCall(p, d)
    \/ \E decs \in SeedLists : StoreDealsCall(decs, 1)

SpecPolicy == InitPolicy /\ [][NextPolicy]_vars

(***************************************************************************)
(* The policies called while the asset editor changes what is allocated:   *)
(* the low-turnover and the high-yield client have a bond allocated next   *)
(* to an instrument their policy may trade.                                *)
(***************************************************************************)
EditorAllocations ==
    [c \in Portfolios |->
        CASE c = 1 -> <<"TLT">> [] c = 2 -> <<"TLT", "SPY">> [] c = 3 -> <<"AAPL", "TLT">>]

\* the selections the asset editor saves for a client
EditorChoices(c) ==
    CASE c = 1 -> {<<"TLT">>}
      [] c = 2 -> {<<"TLT", "SPY">>, <<"SPY">>}
      [] c = 3 -> {<<"AAPL", "TLT">>, <<"TLT">>}

\* the Mondays the policies are called for, and the period on the page
\* when a selection is saved
EditorDates == {1, 15}
EditorPeriod == <<10, 22>>

InitEditor ==
    /\ Deals = <<>>
    /\ Holdings = NoHoldings
    /\ Allocations = EditorAllocations

NextEditor ==
    \/ \E p \in Portfolios, d \in EditorDates : PolicyCall(p, d)
    \/ \E c \in Portfolios :
          \E selected \in EditorChoices(c) :
            SaveModifications(c, selected, EditorPeriod[1], EditorPeriod[2])

SpecEditor == InitEditor /\ [][NextEditor]_vars

(***************************************************************************)
(* Regeneration over a ledger that also holds events recorded through      *)
(* store_deals for dates that are not Mondays.                             *)
(***************************************************************************)
\* Wednesdays 2024-01-10 and 2024-01-24
MidweekDates == {10, 24}

\* the period the regenerations of this specification are asked for
RegeneratedPeriod == <<10, 22>>

NextRegenerate ==
    \/ \E decs \in SeedLists, d \in MidweekDates : StoreDealsCall(decs, d)
    \/ \E c \in Portfolios :
          GenerateTransactionsCall(c, RegeneratedPeriod[1], RegeneratedPeriod[2])

SpecRegenerate == Init /\ [][NextRegenerate]_vars

(***************************************************************************)
(* Replay of a hand-made ledger: events of portfolio 1 inserted in any     *)
(* order, then read back by the positions query.                           *)
(***************************************************************************)
ReplayDates == {1, 8}

ReplayEvents ==
    {Row(1, t, "achat", q, d) : t \in {"AAPL", "TLT"}, q \in {10, 20}, d \in ReplayDates}
    \cup {Row(1, t, "vente", 10, d) : t \in {"AAPL", "TLT"}, d \in ReplayDates}

\* INSERT INTO Deals (...) VALUES (...) of one event
InsertEvent(e) ==
    /\ Len(Deals) < MaxDeals
    /\ Deals' = Append(Deals, e)
    /\ UNCHANGED <<Holdings, Allocations>>

NextReplay == \E e \in ReplayEvents : InsertEvent(e)

SpecReplay == Init /\ [][NextReplay]_vars

(***************************************************************************)
(* Properties.                                                             *)
(***************************************************************************)
\* decision lists of up to two decisions, an unknown ticker included
AnyDecisions ==
    {Decision(3, t, op, q) :
        t \in {"AAPL", "ZZZ"}, op \in {"achat", "vente"}, q \in {5, 20}}

AnyDecisionLists ==
    {<<>>} \cup {<<a>> : a \in AnyDecisions}
           \cup {<<a, b>> : a \in AnyDecisions, b \in AnyDecisions}

\* C1: whatever the ledger, the decision list and the date, recording the
\* list a second time leaves the ledger as the first recording left it.
C1_StoreDealsIdempotent ==
    \A decs \in AnyDecisionLists, d \in CallDates :
        StoreDeals(StoreDeals(Deals, decs, d), decs, d) = StoreDeals(Deals, decs, d)

\* the ledger is what one recording of a two-decision list for one date
\* wrote, and recording that list again adds nothing
C1_Witness ==
    \E decs \in DecisionLists, d \in CallDates :
        /\ Len(decs) = 2
        /\ Deals # <<>>
        /\ Deals = StoreDeals(<<>>, decs, d)
        /\ StoreDeals(Deals, decs, d) = Deals

SameKey(a, b) ==
    /\ a.portefeuille_id = b.portefeuille_id
    /\ a.produit = b.produit
    /\ a.date = b.date
    /\ a.type_operation = b.type_operation

\* C2: the ledger never holds two events with the same portfolio,
\* instrument, date and operation.
C2_LedgerKeysUnique ==
    \A i, j \in 1..Len(Deals) : SameKey(Deals[i], Deals[j]) => i = j

\* three events of one portfolio and instrument that differ pairwise in the
\* date or the operation only
C2_Witness ==
    \E i, j, k \in 1..Len(Deals) :
        /\ Deals[i].portefeuille_id = Deals[j].portefeuille_id
        /\ Deals[i].portefeuille_id = Deals[k].portefeuille_id
        /\ Deals[i].produit = Deals[j].produit
        /\ Deals[i].produit = Deals[k].produit
        /\ Deals[i].date = Deals[j].date
        /\ Deals[i].type_operation # Deals[j].type_operation
        /\ Deals[i].date # Deals[k].date
        /\ Deals[i].type_operation = Deals[k].type_operation

\* the dates positions are asked for
AsOfDates == {FourMondays[i] : i \in 1..4}

\* C3: for every portfolio, instrument and as-of date the position derived
\* from the ledger (buys minus sells dated up to the as-of date) is
\* never negative.
C3_NoOversoldLedger ==
    \A p \in Portfolios, t \in Tickers, d \in AsOfDates :
        GetCurrentPosition(Deals, p, t, d) >= 0

\* C7: the positions query lists exactly the instruments whose net quantity
\* up to the date is positive, each with that net quantity, and nothing for
\* a portfolio without events.
C7_PositionsAreFinalNet ==
    \A p \in Portfolios, d \in AsOfDates, t \in Tickers :
        GetPortfolioPositions(Deals, p, d)[t] =
            IF GetCurrentPosition(Deals, p, t, d) > 0
            THEN GetCurrentPosition(Deals, p, t, d) ELSE 0

IsPrefix(a, b) == Len(a) <= Len(b) /\ SubSeq(b, 1, Len(a)) = a

\* C8 as stated: no step removes or changes an event the ledger holds.
C8_AppendOnly == [][IsPrefix(Deals, Deals')]_vars

\* the events a regeneration for client c over [start, end] must keep
Outside(deals, c, start, end) ==
    SelectSeq(deals, LAMBDA r :
        r.portefeuille_id # c \/ r.date < start \/ r.date > end)

\* the two four-Monday batches leave every event of the ledger in place
BatchesOnlyAppend ==
    \A mkt \in MarketFor(AllocatedTickers(Allocations), StoredKinds), rnd \in RandQty :
        /\ IsPrefix(Deals, BaseUpdaterStoreDeals(Deals, Allocations, mkt, rnd).deals)
        /\ IsPrefix(Deals, ExecuteEach(Deals, Allocations, mkt, FourMondays, 1, rnd).deals)

\* a step appends, or resets, or keeps in place every event outside one
\* client's regeneration period and adds only events of that client dated
\* in the period
AppendResetOrRegenerate ==
    \/ IsPrefix(Deals, Deals') /\ Allocations' = Allocations
    \/ Deals' = <<>> /\ Holdings' = NoHoldings /\ Allocations' = InitialAllocations
    \/ \E c \in Portfolios, period \in Periods :
          /\ IsPrefix(Outside(Deals, c, period[1], period[2]), Deals')
          /\ \A k \in 1..Len(Deals') :
                k > Len(Outside(Deals, c, period[1], period[2]))
                => /\ Deals'[k].portefeuille_id = c
                   /\ Deals'[k].date \in period[1]..period[2]
          /\ \A o \in Portfolios \ {c} : Allocations'[o] = Allocations[o]

\* C8 amended: an event is never changed, and it leaves the ledger only
\* when the database is reset or when generate_transactions_for_client
\* regenerates its portfolio over a period that holds its date; the
\* four-Monday batches only append.
C8_RemovedOnlyByRegenerationOrReset ==
    []BatchesOnlyAppend /\ [][AppendResetOrRegenerate]_vars

\* a regeneration has removed events: a portfolio without any event left
\* still has the holdings an earlier rebuild wrote for it
C8_Witness ==
    /\ Deals # <<>>
    /\ \E p \in Portfolios :
          /\ \A i \in 1..Len(Deals) : Deals[i].portefeuille_id # p
          /\ \E t \in Tickers : Holdings[p][t] > 0

\* C9: the events one batch records for a portfolio are recorded in
\* increasing date order.
C9_EpochsInDateOrder ==
    [][\A i, j \in 1..Len(Deals') :
          /\ i < j
          /\ Deals'[i] \notin Range(Deals)
          /\ Deals'[j] \notin Range(Deals)
          /\ Deals'[i].portefeuille_id = Deals'[j].portefeuille_id
          => Deals'[i].date <= Deals'[j].date]_vars

\* the decisions a policy hands back for portfolio p at date d
DecisionsAt(p, d, mkt, rnd) ==
    ApplyStrategy(Deals, Allocations, mkt, ProfilRisque(p), p, d, rnd).decisions

\* C4: every decision a policy emits has a quantity of at least 1, and a
\* sell decision never exceeds the position read for that portfolio,
\* instrument and date when it is made.
C4_SellsClampedToPosition ==
    \A p \in Portfolios, d \in EpochDates, rnd \in RandQty :
        \A mkt \in MarketFor(Range(Allocations[p]), EpochKinds) :
            \A i \in 1..Len(DecisionsAt(p, d, mkt, rnd)) :
                LET dec == DecisionsAt(p, d, mkt, rnd)[i]
                IN  /\ dec.quantite \in Nat
                    /\ dec.quantite >= 1
                    /\ dec.type_operation = "vente"
                       => dec.quantite <= GetCurrentPosition(Deals, p, dec.ticker, d)

\* a policy is about to sell a holding smaller than the size it would
\* otherwise sell, and sells exactly the holding
C4_Witness ==
    \E p \in Portfolios, d \in EpochDates, rnd \in RandQty :
        \E mkt \in MarketFor(Range(Allocations[p]), EpochKinds) :
            \E i \in 1..Len(DecisionsAt(p, d, mkt, rnd)) :
                LET dec == DecisionsAt(p, d, mkt, rnd)[i]
                IN  /\ dec.type_operation = "vente"
                    /\ dec.quantite = GetCurrentPosition(Deals, p, dec.ticker, d)
                    /\ dec.quantite < 5

\* C5: deciding and recording an epoch a second time, with the same market
\* data and allocations and whatever the random draws, leaves the ledger as
\* the first run left it.
C5_ReexecutionSafe ==
    \A p \in Portfolios, d \in EpochDates :
        \A mkt \in MarketFor(Range(Allocations[p]), EpochKinds) :
            \A rnd1 \in DrawsFor(ProfilRisque(p)), rnd2 \in DrawsFor(ProfilRisque(p)) :
                LET first == DecideRecord(Deals, Allocations, mkt, p, d, rnd1)
                    second == DecideRecord(first.deals, Allocations, mkt, p, d, rnd2)
                IN  second.deals = first.deals

\* the last event is a sale a run has just recorded, and running the same
\* epoch again decides a further sale, which the recorder leaves out
C5_Witness ==
    /\ Len(Deals) >= 2
    /\ Deals[Len(Deals)].type_operation = "vente"
    /\ \E mkt \in MarketFor(Range(Allocations[Deals[Len(Deals)].portefeuille_id]),
                            EpochKinds) :
          LET p == Deals[Len(Deals)].portefeuille_id
              d == Deals[Len(Deals)].date
          IN  /\ DecisionsAt(p, d, mkt, 15) # <<>>
              /\ DecideRecord(Deals, Allocations, mkt, p, d, 15).deals = Deals

\* events of portfolio p dated in month m
EventsInMonth(p, m) ==
    {i \in 1..Len(Deals) :
        Deals[i].portefeuille_id = p /\ MonthOf(Deals[i].date) = m}

\* C10: a low-turnover portfolio holds at most two events dated in one
\* calendar month, each dated on a Monday whose day of month is in 1..7 or
\* 15..21.
C10_LowTurnoverMonthlyCap ==
    \A p \in Portfolios :
        ProfilRisque(p) = "Low turnover" =>
            /\ \A m \in 1..2 : Cardinality(EventsInMonth(p, m)) <= MaxMonthlyTrades
            /\ \A i \in 1..Len(Deals) :
                  Deals[i].portefeuille_id = p =>
                      /\ Weekday(Deals[i].date) = 0
                      /\ DayOfMonth(Deals[i].date) \in (1..7) \cup (15..21)

\* a low-turnover portfolio with two events in January and one in February
C10_Witness ==
    \E p \in Portfolios :
        /\ ProfilRisque(p) = "Low turnover"
        /\ Cardinality(EventsInMonth(p, 1)) = 2
        /\ Cardinality(EventsInMonth(p, 2)) = 1

\* the ledger holding the same events in the order f gives them
Reordered(deals, f) == [i \in 1..Len(deals) |-> deals[f[i]]]

\* C6: the positions query answers the same for every order in which the
\* events of the ledger could have been inserted.
C6_ReplayOrderIndependent ==
    \A f \in Permutations(1..Len(Deals)) :
        \A d \in ReplayDates :
            GetPortfolioPositions(Reordered(Deals, f), 1, d)
                = GetPortfolioPositions(Deals, 1, d)

\* a ledger whose first two events are a purchase and a smaller sale of one
\* instrument on one date, followed by a later event of that instrument:
\* the query lists the net of the shared date
C6_Witness ==
    /\ Len(Deals) = 3
    /\ Deals[1].produit = Deals[2].produit
    /\ Deals[1].date = Deals[2].date
    /\ Deals[1].type_operation = "achat"
    /\ Deals[2].type_operation = "vente"
    /\ Deals[1].quantite > Deals[2].quantite
    /\ Deals[3].produit = Deals[1].produit
    /\ Deals[3].date > Deals[1].date
    /\ GetPortfolioPositions(Deals, 1, Deals[3].date)[Deals[1].produit]
          = Deals[1].quantite - Deals[2].quantite

\* the low-turnover portfolios
LowTurnoverPortfolios == {p \in Portfolios : ProfilRisque(p) = "Low turnover"}

\* C11: the low-turnover policy hands back at most one decision per call
\* and none when the ledger holds an event of the portfolio on the date; a
\* buy has the drawn quantity, which is in 15..25, a sale the smaller of the
\* holding and the drawn quantity; and the ledger of a low-turnover
\* portfolio never holds two events on one date.
C11_LowTurnoverSingleTrade ==
    \A p \in LowTurnoverPortfolios :
        /\ \A i \in 1..Len(Deals) :
              Deals[i].portefeuille_id = p => TradesOnDate(Deals, p, Deals[i].date) = 1
        /\ \A d \in PolicyDates, rnd \in RandQty :
              \A mkt \in MarketFor(Range(Allocations[p]), PolicyKinds) :
                LET ds == DecisionsAt(p, d, mkt, rnd)
                IN  /\ Len(ds) <= 1
                    /\ TradesOnDate(Deals, p, d) > 0 => ds = <<>>
                    /\ \A i \in 1..Len(ds) :
                          /\ ds[i].type_operation = "achat"
                             => ds[i].quantite = rnd /\ rnd \in 15..25
                          /\ ds[i].type_operation = "vente"
                             => ds[i].quantite =
                                  Min2(GetCurrentPosition(Deals, p, ds[i].ticker, d), rnd)

\* a low-turnover portfolio bought 15 on 2024-01-01: called again for that
\* date with a series that would make it buy its other instrument it
\* decides nothing, and called for 2024-01-15 with a draw of 25 it sells
\* the 15 it holds
C11_Witness ==
    \E p \in LowTurnoverPortfolios :
        \E mkt \in MarketFor(Range(Allocations[p]), PolicyKinds) :
            /\ TradesOnDate(Deals, p, 1) = 1
            /\ LowTurnoverScan(Deals, mkt,
                    GetMarketData(mkt, GetProductsByStrategy(Allocations,
                                           ProfilRisque(p), p), 1),
                    1, p, 1, 25) # <<>>
            /\ DecisionsAt(p, 1, mkt, 25) = <<>>
            /\ TradesOnDate(Deals, p, 15) = 0
            /\ \E t \in Range(Allocations[p]) :
                  /\ GetCurrentPosition(Deals, p, t, 15) = 15
                  /\ \E m2 \in MarketFor(Range(Allocations[p]), PolicyKinds) :
                        DecisionsAt(p, 15, m2, 25) = <<Decision(p, t, "vente", 15)>>

\* the days of a month, as dates of January 2024
DaysOfMonth == 1..31

\* ceil(day / 7)
CeilWeek(day) == (day + 6) \div 7

\* C12: for every day of the month the code's week number is ceil(day/7);
\* it is 1 or 3 exactly for the days 1..7 and 15..21; and on every other
\* day the low-turnover policy hands back no decision, whatever is stored
\* for its instruments and whatever it holds.
C12_InactiveWeekIsEmpty ==
    \A d \in DaysOfMonth :
        /\ WeekNumber(d) = CeilWeek(DayOfMonth(d))
        /\ IsTradingWeek(d) <=> DayOfMonth(d) \notin (8..14) \cup (22..31)
        /\ CeilWeek(DayOfMonth(d)) \notin {1, 3} =>
              \A p \in LowTurnoverPortfolios, rnd \in RandQty :
                  \A mkt \in MarketFor(Range(Allocations[p]), {"pos", "neg"}) :
                      DecisionsAt(p, d, mkt, rnd) = <<>>

\* a low-turnover portfolio holds an instrument whose series would make it
\* sell, has no event on 2024-01-08, and asked for that date decides nothing
C12_Witness ==
    \E p \in LowTurnoverPortfolios :
        \E mkt \in MarketFor(Range(Allocations[p]), {"pos", "neg"}) :
            /\ TradesOnDate(Deals, p, 8) = 0
            /\ \E t \in Range(Allocations[p]) : GetCurrentPosition(Deals, p, t, 8) > 0
            /\ LowTurnoverScan(Deals, mkt,
                    GetMarketData(mkt, GetProductsByStrategy(Allocations,
                                           ProfilRisque(p), p), 8),
                    1, p, 8, 15) # <<>>
            /\ DecisionsAt(p, 8, mkt, 15) = <<>>

LowRiskPortfolios == {p \in Portfolios : ProfilRisque(p) = "Low risk"}

\* the market in which only ticker t has a stored series, of the given kind
Only(t, kind) == [x \in Tickers |-> IF x = t THEN kind ELSE "none"]

\* the quantity the policy of portfolio p decides to buy of t at date d
\* when t's series is of the given kind; 0 when it does not buy t
BuyQuantity(p, t, d, kind) ==
    LET ds == DecisionsAt(p, d, Only(t, kind), 15)
    IN  IF ds # <<>> /\ ds[1].type_operation = "achat" /\ ds[1].ticker = t
        THEN ds[1].quantite ELSE 0

\* C13: for an instrument the low-risk portfolio does not hold, with
\* positive 10-day and 30-day means and a volatility below 1.2 x target,
\* the purchase at 8% volatility is of 12, a lower volatility (4%) gives at
\* least that quantity, and the two volatilities do not always give the
\* same quantity.
C13_InverseVolatilitySizing ==
    \A p \in LowRiskPortfolios, d \in PolicyDates :
        \A t \in Range(Allocations[p]) :
            GetCurrentPosition(Deals, p, t, d) = 0 =>
                /\ BuyQuantity(p, t, d, "pos") = 12
                /\ BuyQuantity(p, t, d, "calm") >= BuyQuantity(p, t, d, "pos")
                /\ \E k1, k2 \in {"pos", "calm"} :
                      BuyQuantity(p, t, d, k1) # BuyQuantity(p, t, d, k2)

HighYieldPortfolios == {p \in Portfolios : ProfilRisque(p) = "High yield equity"}

\* the instruments whose frames apply_strategy hands to the policy of p
Evaluated(p, d, mkt) ==
    Range(GetMarketData(mkt, GetProductsByStrategy(Allocations, ProfilRisque(p), p), d))

\* the sell decisions for instrument t among ds
SellsOf(ds, t) ==
    {i \in 1..Len(ds) : ds[i].ticker = t /\ ds[i].type_operation = "vente"}

\* the buy decisions for instrument t among ds
BuysOf(ds, t) ==
    {i \in 1..Len(ds) : ds[i].ticker = t /\ ds[i].type_operation = "achat"}

\* the stop-loss condition on the means handed to the policy
StopLoss(kind, d) ==
    /\ HasMean(kind, d)
    /\ \/ Stats(kind).r30 < -700
       \/ Stats(kind).r5 < 0 /\ Stats(kind).r10 < 0 /\ Stats(kind).r30 < 0

\* C14: for every instrument a high-yield portfolio holds (position q > 0)
\* and whose 30-day mean is below -7%, or whose 5-, 10- and 30-day means
\* are all negative, the policy decides exactly one sale of that instrument,
\* of min(q, max(5, floor(0.75 q))); for a held instrument in neither case
\* it decides no sale.
C14_HighYieldStopLoss ==
    \A p \in HighYieldPortfolios, d \in PolicyDates :
        \A mkt \in MarketFor(Range(Allocations[p]), PolicyKinds) :
            \A t \in Evaluated(p, d, mkt) :
                LET q == GetCurrentPosition(Deals, p, t, d)
                    ds == DecisionsAt(p, d, mkt, 15)
                IN  q > 0 =>
                        IF StopLoss(mkt[t], d)
                        THEN /\ Cardinality(SellsOf(ds, t)) = 1
                             /\ \A i \in SellsOf(ds, t) :
                                   ds[i].quantite = Min2(q, Max2(5, (3 * q) \div 4))
                        ELSE SellsOf(ds, t) = {}

\* the sell condition of the low-risk policy on what is handed to it
ConservativeSell(t, kind, d) ==
    \/ HasMean(kind, d) /\ Stats(kind).r30 < -200 /\ ProductType(t) = "Stock"
    \/ HasMean(kind, d) /\ Stats(kind).r30 < -100 /\ ProductType(t) = "Bond"
    \/ HasStd(kind, d) /\ 10 * Stats(kind).vol > 15 * TargetVolatility

\* C15: for every instrument a low-risk portfolio holds (position q > 0)
\* the policy decides a sale exactly when the 30-day mean is below -2% for
\* a stock, or below -1% for a bond, or the volatility is above 1.5 x the
\* target; the sale is of min(q, max(5, floor(0.25 q))); and it decides no
\* purchase of an instrument it holds.
C15_ConservativeSellRule ==
    \A p \in LowRiskPortfolios, d \in PolicyDates :
        \A mkt \in MarketFor(Range(Allocations[p]), PolicyKinds) :
            \A t \in Evaluated(p, d, mkt) :
                LET q == GetCurrentPosition(Deals, p, t, d)
                    ds == DecisionsAt(p, d, mkt, 15)
                IN  q > 0 =>
                        /\ BuysOf(ds, t) = {}
                        /\ IF ConservativeSell(t, mkt[t], d)
                           THEN /\ Cardinality(SellsOf(ds, t)) = 1
                                /\ \A i \in SellsOf(ds, t) :
                                      ds[i].quantite = Min2(q, Max2(5, q \div 4))
                           ELSE SellsOf(ds, t) = {}

\* the longest head(n) window a policy takes its means over
LongestWindow(strategy) == IF strategy = "Low turnover" THEN 20 ELSE 30

\* C16: no policy hands back a decision for an instrument whose frame has
\* fewer rows than the longest window the policy averages over.
C16_ShortHistorySkipped ==
    \A p \in Portfolios, d \in PolicyDates, rnd \in RandQty :
        \A mkt \in MarketFor(Range(Allocations[p]), PolicyKinds) :
            \A i \in 1..Len(DecisionsAt(p, d, mkt, rnd)) :
                Observations(mkt[DecisionsAt(p, d, mkt, rnd)[i].ticker], d)
                    >= LongestWindow(ProfilRisque(p))

\* the 30-day volatility of the series is 0 or is not a number
ZeroOrUndefinedVolatility(kind, d) == ~HasStd(kind, d) \/ Stats(kind).vol = 0

\* the decisions for instrument t among ds, in order
DecisionsFor(ds, t) == SelectSeq(ds, LAMBDA x : x.ticker = t)

\* C17: when the volatility of an instrument is 0 or undefined, the
\* low-risk and high-yield policies end without an exception, decide no
\* purchase of that instrument, and decide for every other instrument what
\* they decide for it alone.
C17_ZeroVolatilityNeverRaises ==
    \A p \in LowRiskPortfolios \cup HighYieldPortfolios, d \in PolicyDates :
        \A mkt \in MarketFor(Range(Allocations[p]), PolicyKinds) :
            \A t \in Evaluated(p, d, mkt) :
                ZeroOrUndefinedVolatility(mkt[t], d) =>
                    /\ ~ApplyStrategy(Deals, Allocations, mkt, ProfilRisque(p), p, d,
                                      15).raised
                    /\ BuysOf(DecisionsAt(p, d, mkt, 15), t) = {}
                    /\ \A u \in Evaluated(p, d, mkt) \ {t} :
                          DecisionsFor(DecisionsAt(p, d, mkt, 15), u)
                              = DecisionsAt(p, d, Only(u, mkt[u]), 15)

\* price histories of the two instruments of the replayed ledger
PriceHistories ==
    {[t \in Tickers |-> IF t \in {"AAPL", "TLT"} THEN f[t] ELSE "steady"] :
        f \in [{"AAPL", "TLT"} -> PriceKinds]}

\* the as-of dates of a valuation
ValuationDates == {1, 8, 15}

\* the date ranges a series is asked for: four Mondays, two Mondays, no
\* Monday, start after end
ValuationRanges == {<<1, 22>>, <<8, 15>>, <<2, 7>>, <<15, 1>>}

\* the listed instruments of portfolio p that have a price dated up to d
Priced(px, p, d) ==
    {t \in Listed(GetPortfolioPositions(Deals, p, d)) :
        HasTable(px[t]) /\ HasPrice(px[t], d)}

\* C18: when a listed instrument has no price dated up to the as-of date
\* (its table has no such row, or there is no table for it), the
\* composition and the valuation end without an exception, leave that
\* instrument out, and take the total value and the weights from the
\* instruments that have a price.
C18_UnpricedInstrumentLeftOut ==
    \A px \in PriceHistories, d \in ValuationDates :
        LET positions == GetPortfolioPositions(Deals, 1, d)
            priced == Priced(px, 1, d)
            total == SumOver([t \in Tickers |->
                                IF t \in priced THEN ClosePrice(px[t], d) * positions[t]
                                ELSE 0], Tickers)
            composition == GetPortfolioComposition(Deals, px, 1, d)
            valuation == GetPortfolioValueAndReturn(Deals, px, 1, d)
        IN  Listed(positions) # priced =>
                /\ ~composition.raised
                /\ ~valuation.raised
                /\ DOMAIN composition.rows = priced
                /\ valuation.value = total
                /\ \A t \in priced :
                      /\ composition.rows[t].valeur_marche
                            = ClosePrice(px[t], d) * positions[t]
                      /\ composition.rows[t].poids
                            = (composition.rows[t].valeur_marche * 10000) \div total

\* C20: every return in a series get_weekly_returns produces is between
\* -10% and +10%.
C20_WeeklyReturnsClipped ==
    \A px \in PriceHistories, range \in ValuationRanges :
        LET weekly == GetWeeklyReturns(Deals, px, 1, range[1], range[2])
        IN  \A i \in 1..Len(weekly.rows) :
                /\ weekly.rows[i].return >= -1000
                /\ weekly.rows[i].return <= 1000

\* the ledger holds one instrument whose price rises by half in a week and
\* one whose price falls by more than half: the series over the four
\* Mondays has a return cut to +10% and a return cut to -10%
C20_Witness ==
    \E px \in PriceHistories :
        LET weekly == GetWeeklyReturns(Deals, px, 1, 1, 22)
            v1 == GetPortfolioValueAndReturn(Deals, px, 1, 1).value
            v8 == GetPortfolioValueAndReturn(Deals, px, 1, 8).value
            v15 == GetPortfolioValueAndReturn(Deals, px, 1, 15).value
        IN  /\ ~weekly.raised
            /\ Len(weekly.rows) = 3
            /\ v1 > 0 /\ v8 * 10 > v1 * 12 /\ v15 * 10 < v8 * 8
            /\ weekly.rows[1].return = 1000
            /\ weekly.rows[2].return = -1000

\* C19: whatever the ledger and the snapshot it finds, update_portfolios
\* leaves in Portfolios_Holdings, for every portfolio, exactly the
\* instruments whose net quantity in the ledger is positive, each with
\* that quantity; and a second run changes nothing.
C19_HoldingsMatchLedger ==
    LET rebuilt == UpdatePortfolios(Deals, Holdings)
    IN  /\ \A p \in Portfolios, t \in Tickers :
              rebuilt[p][t] = IF NetQuantity(Deals, Len(Deals), p, t) > 0
                              THEN NetQuantity(Deals, Len(Deals), p, t) ELSE 0
        /\ UpdatePortfolios(Deals, rebuilt) = rebuilt

\* the value get_portfolio_value_and_return gives portfolio 1 on date d
ValueAt(px, d) == GetPortfolioValueAndReturn(Deals, px, 1, d).value

\* the largest element of a non-empty set of numbers
Latest(S) == CHOOSE x \in S : \A y \in S : y <= x

\* C21 as stated: the series has one sample for each Monday of the range
\* after the first, in ascending date order, and its return is
\* clip(value(this Monday) / value(previous Monday) - 1, -10%, +10%).
C21_ConsecutiveRatio ==
    \A px \in PriceHistories, range \in ValuationRanges :
        LET mondays == GetMondaysBetweenDates(range[1], range[2])
            weekly == GetWeeklyReturns(Deals, px, 1, range[1], range[2])
        IN  ~weekly.raised =>
                /\ Len(weekly.rows) = Max2(0, Len(mondays) - 1)
                /\ \A k \in 2..Len(mondays) :
                      /\ weekly.rows[k - 1].date = mondays[k]
                      /\ ValueAt(px, mondays[k - 1]) > 0
                      /\ weekly.rows[k - 1].return =
                            Clip(WeeklyReturn(ValueAt(px, mondays[k]),
                                              ValueAt(px, mondays[k - 1])))

\* C21 amended: the Mondays sampled are all the Mondays of [start, end] in
\* ascending order; the series has one sample for each of them that comes
\* after a Monday of the range with a positive portfolio value, and none for
\* the others; the sample carries the value of its Monday, and its return is
\* clip(value(this Monday) / value(latest earlier Monday of the range with a
\* positive value) - 1, -10%, +10%), which is the immediately preceding
\* Monday whenever that Monday's value is positive.
C21_RelativeToLastValuedMonday ==
    \A px \in PriceHistories, range \in ValuationRanges :
        LET mondays == GetMondaysBetweenDates(range[1], range[2])
            weekly == GetWeeklyReturns(Deals, px, 1, range[1], range[2])
            values == [k \in 1..Len(mondays) |-> ValueAt(px, mondays[k])]
            valued == {k \in 1..Len(mondays) : values[k] > 0}
            sampled == {k \in 1..Len(mondays) : \E j \in valued : j < k}
        IN  /\ Range(mondays) = {d \in range[1]..range[2] : Weekday(d) = 0}
            /\ \A i, j \in 1..Len(mondays) : i < j => mondays[i] < mondays[j]
            /\ ~weekly.raised =>
                  /\ {weekly.rows[i].date : i \in 1..Len(weekly.rows)}
                        = {mondays[k] : k \in sampled}
                  /\ \A i, j \in 1..Len(weekly.rows) :
                        i < j => weekly.rows[i].date < weekly.rows[j].date
                  /\ \A i \in 1..Len(weekly.rows), k \in sampled :
                        weekly.rows[i].date = mondays[k] =>
                            /\ weekly.rows[i].value = values[k]
                            /\ weekly.rows[i].return =
                                  Clip(WeeklyReturn(values[k],
                                         values[Latest({j \in valued : j < k})]))

\* the portfolio holds nothing on 2024-01-01 and something from 2024-01-08
\* on, its value changes between 2024-01-08 and 2024-01-15: the series over
\* the four Mondays has no sample for 2024-01-08, and its first sample, for
\* 2024-01-15, is relative to the value of 2024-01-08
C21_Witness ==
    \E px \in PriceHistories :
        LET weekly == GetWeeklyReturns(Deals, px, 1, 1, 22)
        IN  /\ ~weekly.raised
            /\ ValueAt(px, 1) = 0
            /\ ValueAt(px, 8) > 0
            /\ ValueAt(px, 15) # ValueAt(px, 8)
            /\ Len(weekly.rows) = 2
            /\ weekly.rows[1].date = 15
            /\ weekly.rows[1].return =
                  Clip(WeeklyReturn(ValueAt(px, 15), ValueAt(px, 8)))
            /\ weekly.rows[1].return # 0

\* price histories of the two instruments of the replayed ledger for the
\* metrics: every kind for one, a steady or rising price for the other
MetricHistories ==
    {[t \in Tickers |->
        CASE t = "AAPL" -> k1 [] t = "TLT" -> k2 [] OTHER -> "steady"] :
        k1 \in PriceKinds \cup TrendKinds, k2 \in {"steady", "rally"}}

\* the date ranges metrics are asked for: five, four, three and two
\* Mondays, no Monday, start after end
MetricRanges == {<<1, 29>>, <<1, 22>>, <<1, 15>>, <<8, 15>>, <<2, 7>>, <<15, 1>>}

\* C22: whenever the weekly-return series of the range has fewer than two
\* samples, calculate_performance_metrics ends without an exception and
\* returns the result whose figures are all 0 and whose weekly_returns
\* table is empty; a range without a Monday, a range whose start is after
\* its end and an empty ledger are such cases.
C22_EmptyRangeMetrics ==
    \A px \in MetricHistories, range \in MetricRanges :
        LET weekly == GetWeeklyReturns(Deals, px, 1, range[1], range[2])
            metrics == CalculatePerformanceMetrics(Deals, px, 1, range[1], range[2])
        IN  /\ ~weekly.raised /\ Len(weekly.rows) < 2 =>
                  /\ ~metrics.raised
                  /\ metrics.rendement_total = 0
                  /\ metrics.rendement_annualise = 0
                  /\ metrics.volatilite_annualisee = 0
                  /\ metrics.ratio_sharpe = 0
                  /\ metrics.drawdown_max = 0
                  /\ metrics.valeur_finale = 0
                  /\ metrics.nb_semaines_positives = 0
                  /\ metrics.weekly_returns = <<>>
            /\ \/ GetMondaysBetweenDates(range[1], range[2]) = <<>>
               \/ range[1] > range[2]
               \/ Deals = <<>>
               => ~weekly.raised /\ Len(weekly.rows) < 2

\* the portfolio has a value on 2024-01-08 and another on 2024-01-15: the
\* series of that range has one sample, with a return that is not 0, and
\* the metrics are all 0 with an empty table
C22_Witness ==
    \E px \in MetricHistories :
        LET weekly == GetWeeklyReturns(Deals, px, 1, 8, 15)
            metrics == CalculatePerformanceMetrics(Deals, px, 1, 8, 15)
        IN  /\ ~weekly.raised
            /\ Len(weekly.rows) = 1
            /\ weekly.rows[1].return # 0
            /\ weekly.rows[1].value > 0
            /\ metrics = ZeroMetrics

\* the returns of a series, in order
ReturnsOf(rows) == [i \in 1..Len(rows) |-> rows[i].return]

\* all the returns of the series are the same number
AllEqual(returns) == \A i \in 1..Len(returns) : returns[i] = returns[1]

\* C23: when the weekly-return series has at least two samples,
\* calculate_performance_metrics ends without an exception; if all the
\* samples are equal it reports a volatility of 0 and a Sharpe ratio of 0,
\* and otherwise a Sharpe ratio of (annualised return - 2%) / annualised
\* volatility.
C23_SharpeZeroVolatility ==
    \A px \in MetricHistories, range \in MetricRanges :
        LET weekly == GetWeeklyReturns(Deals, px, 1, range[1], range[2])
            metrics == CalculatePerformanceMetrics(Deals, px, 1, range[1], range[2])
        IN  ~weekly.raised /\ Len(weekly.rows) >= 2 =>
                /\ ~metrics.raised
                /\ IF AllEqual(ReturnsOf(weekly.rows))
                   THEN /\ metrics.volatilite_annualisee = 0
                        /\ metrics.ratio_sharpe = 0
                   ELSE /\ metrics.volatilite_annualisee > 0
                        /\ metrics.ratio_sharpe =
                              Quotient(metrics.rendement_annualise - RiskFreeRate,
                                       metrics.volatilite_annualisee)

\* the classes of instrument the policy of a risk profile may trade
TradableTypes(strategy) ==
    CASE strategy = "High yield equity" -> {"Stock"}
      [] strategy = "Low turnover" -> {"Stock", "ETF"}
      [] OTHER -> {"Stock", "ETF", "Bond"}

\* C24: every event of a high-yield portfolio is for a stock and every
\* event of a low-turnover portfolio for a stock or an ETF; and every
\* decision apply_strategy hands back is for an instrument that is in the
\* Allocations of the portfolio's client when the call is made, and of a
\* class its policy may trade.
C24_EligibleInstrumentsOnly ==
    /\ \A i \in 1..Len(Deals) :
          ProductType(Deals[i].produit)
              \in TradableTypes(ProfilRisque(Deals[i].portefeuille_id))
    /\ \A p \in Portfolios, d \in EditorDates :
          \A mkt \in MarketFor(Range(Allocations[p]), {"pos", "neg"}),
             rnd \in DrawsFor(ProfilRisque(p)) :
              \A i \in 1..Len(DecisionsAt(p, d, mkt, rnd)) :
                  LET dec == DecisionsAt(p, d, mkt, rnd)[i]
                  IN  /\ dec.portfolio_id = p
                      /\ dec.ticker \in Range(Allocations[p])
                      /\ ProductType(dec.ticker) \in TradableTypes(ProfilRisque(p))

\* the high-yield and the low-turnover portfolio each have an event, both
\* clients have the bond allocated, and with a series for the bond alone
\* that makes the low-risk policy buy it the other two policies decide
\* nothing
C24_Witness ==
    /\ \A p \in LowTurnoverPortfolios \cup HighYieldPortfolios :
          /\ "TLT" \in Range(Allocations[p])
          /\ \E i \in 1..Len(Deals) : Deals[i].portefeuille_id = p
          /\ GetCurrentPosition(Deals, p, "TLT", 15) = 0
          /\ TradesOnDate(Deals, p, 15) = 0
          /\ DecisionsAt(p, 15, Only("TLT", "pos"), 15) = <<>>
    /\ \E p \in LowRiskPortfolios :
          /\ GetCurrentPosition(Deals, p, "TLT", 15) = 0
          /\ DecisionsAt(p, 15, Only("TLT", "pos"), 15)
                = <<Decision(p, "TLT", "achat", 20)>>

\* the events of portfolio p in the ledger, in order
OwnEvents(deals, p) == SelectSeq(deals, LAMBDA r : r.portefeuille_id = p)

\* decide and record for portfolio a and then for portfolio b at date d, as
\* the loops over the portfolios do
InTurn(a, b, d, mkt, rnd) ==
    RunEpochs(Deals, Allocations, mkt, <<<<d, a>>, <<d, b>>>>, 1, rnd)

\* C25: for two distinct portfolios a and b, a date and a fixed draw:
\* deciding and recording for a and then b leaves the ledger with the same
\* events as b and then a; the decisions for a are those made on a's own
\* events alone; and recording the decisions of b changes no position of a.
C25_CrossPortfolioIndependence ==
    \A a, b \in Portfolios, d \in PolicyDates, rnd \in RandQty :
        a # b =>
            \A mkt \in MarketFor(Range(Allocations[a]) \cup Range(Allocations[b]),
                                 CallKinds) :
                LET decs_a == ApplyStrategy(Deals, Allocations, mkt, ProfilRisque(a),
                                            a, d, rnd)
                    decs_b == ApplyStrategy(Deals, Allocations, mkt, ProfilRisque(b),
                                            b, d, rnd)
                IN  /\ Range(InTurn(a, b, d, mkt, rnd).deals)
                          = Range(InTurn(b, a, d, mkt, rnd).deals)
                    /\ Len(InTurn(a, b, d, mkt, rnd).deals)
                          = Len(InTurn(b, a, d, mkt, rnd).deals)
                    /\ decs_a = ApplyStrategy(OwnEvents(Deals, a), Allocations, mkt,
                                              ProfilRisque(a), a, d, rnd)
                    /\ \A t \in Tickers, asof \in PolicyDates :
                          GetCurrentPosition(StoreDeals(Deals, decs_b.decisions, d),
                                             a, t, asof)
                              = GetCurrentPosition(Deals, a, t, asof)

\* the allocations without ticker t for the client of portfolio p
Without(alloc, p, t) ==
    [alloc EXCEPT ![p] = SelectSeq(alloc[p], LAMBDA x : x # t)]

\* what may be stored for an allocated ticker when a policy is called:
\* nothing, a series that starts after the date, or a series with rows
AbsorbKinds == CallKinds \cup {"late"}

\* C26: when an eligible instrument has no stored series, or no row dated
\* up to the date of the call, apply_strategy ends without an exception,
\* hands back no decision for that instrument and decides for the other
\* instruments what it decides when that instrument is not allocated; and
\* when no eligible instrument has a row it hands back the empty list and
\* the ledger stays as it is.
C26_MissingDataAbsorbed ==
    \A p \in Portfolios, d \in PolicyDates :
        \A mkt \in MarketFor(Range(Allocations[p]), AbsorbKinds),
           rnd \in DrawsFor(ProfilRisque(p)) :
            LET eligible == Range(GetProductsByStrategy(Allocations, ProfilRisque(p), p))
                res == ApplyStrategy(Deals, Allocations, mkt, ProfilRisque(p), p, d, rnd)
            IN  /\ \A t \in eligible :
                      ~HasRows(mkt[t], d) =>
                          /\ ~res.raised
                          /\ DecisionsFor(res.decisions, t) = <<>>
                          /\ res.decisions =
                                ApplyStrategy(Deals, Without(Allocations, p, t), mkt,
                                              ProfilRisque(p), p, d, rnd).decisions
                /\ (\A t \in eligible : ~HasRows(mkt[t], d)) =>
                      /\ res = Decided(<<>>)
                      /\ DecideRecord(Deals, Allocations, mkt, p, d, rnd).deals = Deals

\* the latest date of an event of a non-empty ledger
LatestEventDate(deals) ==
    CHOOSE d \in {deals[i].date : i \in 1..Len(deals)} :
        \A i \in 1..Len(deals) : deals[i].date <= d

\* a quantity as the listings show it: 0 stands for "not listed"
ListedQuantity(n) == IF n > 0 THEN n ELSE 0

\* C27: for every portfolio, instrument and date, the positions query lists
\* the instrument with quantity n exactly when get_current_position
\* returns n > 0; and for the latest event date of the ledger both agree
\* with the quantity update_portfolios writes to Portfolios_Holdings.
C27_ReconstructionsAgree ==
    /\ \A p \in Portfolios, t \in Tickers, d \in AsOfDates :
          GetPortfolioPositions(Deals, p, d)[t]
              = ListedQuantity(GetCurrentPosition(Deals, p, t, d))
    /\ Deals # <<>> =>
          \A p \in Portfolios, t \in Tickers :
              LET written == UpdatePortfolios(Deals, NoHoldings)[p][t]
                  last == LatestEventDate(Deals)
              IN  /\ written = ListedQuantity(GetCurrentPosition(Deals, p, t, last))
                  /\ written = GetPortfolioPositions(Deals, p, last)[t]

\* the buy decisions among ds
Buys(ds) == {i \in 1..Len(ds) : ds[i].type_operation = "achat"}

RegenerationPeriods == Periods \cup {<<22, 1>>}

\* the events of portfolio c dated in [start, end]
Inside(deals, c, start, end) ==
    SelectSeq(deals, LAMBDA r :
        r.portefeuille_id = c /\ start <= r.date /\ r.date <= end)

\* C29: generate_transactions_for_client(client, start, end) leaves every
\* event of another portfolio and every event of the client's portfolio
\* dated outside [start, end] as it was, and afterwards every event of that
\* portfolio dated in [start, end] is dated on a Monday.
C29_RegenerationFrame ==
    \A c \in Portfolios, period \in RegenerationPeriods :
        \A mkt \in MarketFor(Range(Allocations[c]), CallKinds),
           rnd \in DrawsFor(ProfilRisque(c)) :
            LET after == GenerateTransactions(Deals, Allocations, mkt, c,
                                              period[1], period[2], rnd).deals
            IN  /\ Outside(after, c, period[1], period[2])
                      = Outside(Deals, c, period[1], period[2])
                /\ \A r \in Range(Inside(after, c, period[1], period[2])) :
                      Weekday(r.date) = 0

\* the ledger holds an event of a portfolio on a Wednesday of the period,
\* an event of that portfolio after the period and an event of another
\* portfolio in the period; a regeneration removes the first, records a
\* purchase on a Monday of the period and keeps the other two
C29_Witness ==
    \E c \in Portfolios, period \in Periods :
        \E mkt \in MarketFor(Range(Allocations[c]), CallKinds),
           rnd \in DrawsFor(ProfilRisque(c)) :
            LET after == GenerateTransactions(Deals, Allocations, mkt, c,
                                              period[1], period[2], rnd).deals
            IN  /\ \E r \in Range(Inside(Deals, c, period[1], period[2])) :
                      /\ Weekday(r.date) # 0
                      /\ r \notin Range(after)
                /\ \E i \in 1..Len(Deals) :
                      /\ Deals[i].portefeuille_id = c
                      /\ Deals[i].date > period[2]
                /\ \E i \in 1..Len(Deals) :
                      /\ Deals[i].portefeuille_id # c
                      /\ Deals[i].date \in period[1]..period[2]
                /\ Inside(after, c, period[1], period[2]) # <<>>
                /\ Outside(after, c, period[1], period[2])
                      = Outside(Deals, c, period[1], period[2])

\* the stored histories whose frames are compared with their prices
OrientationKinds ==
    {"steady", "late", "jump", "crash"} \cup TrendKinds \cup DailyTrendKinds

\* the dates the frames are asked for
OrientationDates == {15, 29}

\* C30: in the frame get_market_data hands to the policy of a portfolio for
\* one of its instruments, the return of an observation is positive exactly
\* when its close is above the close of the observation dated before it; the
\* mean of the returns over head(10) and over head(30) is positive when the
\* closes rise steadily and negative when they fall steadily.
C30_ReturnOrientation ==
    \A p \in Portfolios, d \in OrientationDates, kind \in OrientationKinds :
        \A k \in 1..Len(GetProductsByStrategy(Allocations, ProfilRisque(p), p)) :
            LET prices == MarketCloses(kind, d)
                returns == CalculateReturns(prices)
            IN  /\ \A i \in 1..(Len(prices) - 1) :
                      (~returns[i].isnan /\ returns[i].v > 0)
                          <=> prices[i] > prices[i + 1]
                /\ kind \in {"rally", "climb"} =>
                      /\ ~HeadMean(returns, 10).isnan /\ HeadMean(returns, 10).v > 0
                      /\ ~HeadMean(returns, 30).isnan /\ HeadMean(returns, 30).v > 0
                /\ kind \in {"slide", "descent"} =>
                      /\ ~HeadMean(returns, 10).isnan /\ HeadMean(returns, 10).v < 0
                      /\ ~HeadMean(returns, 30).isnan /\ HeadMean(returns, 30).v < 0

====
